---- MODULE Spec2Model ----
(***************************************************************************)
(* A state-machine model of the pharmacy sales chatbot: the conversation   *)
(* engine PharmacyChatbot (src/llm.py), its reply templates                *)
(* (src/prompt.py) and the follow-up action log FollowUpActions            *)
(* (src/function_calls.py).                                                *)
(*                                                                         *)
(* A user message is modelled by the list of its words (the result of      *)
(* Python's str.split()); the tables KeywordsIn, FirstDigitRun and EmailIn *)
(* give, for every word of the vocabulary, what the code's substring       *)
(* tests and regular expressions find in it.  The directory lookup and the *)
(* language model are the environment: each call to them yields one of a   *)
(* small set of outcomes, chosen nondeterministically.                     *)
(***************************************************************************)
EXTENDS Integers, Sequences, FiniteSets, TLC

VARIABLES
    api_key,                 \* whether a credential was given (self.api_key is truthy)
    ai_available,            \* self.ai_available
    ai_extraction_failures,  \* self.ai_extraction_failures
    current_state,           \* self.current_state
    conversation_history,    \* self.conversation_history
    pharmacy_data,           \* self.pharmacy_data
    collected_info,          \* self.collected_info
    current_info_field,      \* self.current_info_field
    sent_emails,             \* self.follow_up_actions.sent_emails
    scheduled_callbacks,     \* self.follow_up_actions.scheduled_callbacks
    last_op,                 \* the operation that produced this state
    result,                  \* the value it returned to its caller
    llm_requests,            \* the requests it sent to the language model
    lookup_outcome,          \* what the directory lookup did in it ("not_called" if none)
    llm_completion,          \* what the language model did in it (NoCompletion if none)
    reset_from,              \* the state reset_conversation was called in, until the next message ("none" otherwise)
    lookup_pc,               \* where a call of get_pharmacy_by_phone stands
    lookup_phone,            \* its argument phone_number
    http_responses,          \* what each session.get of the call met, in order
    slept,                   \* the seconds of each time.sleep of the call, in order
    lookup_return,           \* the value the call returned
    phone_string,            \* a string given to _clean_phone_number
    normalized,              \* what _clean_phone_number returned for it, then for its own result
    thread_pc,               \* for each thread calling start_call, the line it stands at
    thread_greeting,         \* its local variable greeting
    thread_result,           \* what its call returned
    action_result            \* what the last call of the action log returned to its caller

\* the engine with its action log, and the directory client
engine_vars == <<api_key, ai_available, ai_extraction_failures, current_state,
                 conversation_history, pharmacy_data, collected_info, current_info_field,
                 sent_emails, scheduled_callbacks, last_op, result, llm_requests,
                 lookup_outcome, llm_completion, reset_from>>
lookup_vars == <<lookup_pc, lookup_phone, http_responses, slept, lookup_return>>

phone_vars == <<phone_string, normalized>>

thread_vars == <<thread_pc, thread_greeting, thread_result>>

vars == <<engine_vars, lookup_vars, phone_vars, thread_vars, action_result>>

---------------------------------------------------------------------------
(* Bounds of the model *)

\* the longest transcript start_call and process_message may leave, in entries,
\* under the general specification, under the new-lead specification and under
\* the whole-call specification
MaxHistory == 6
MaxLeadHistory == 12
MaxCallHistory == 10

\* the longest transcript of the single call of a known customer
MaxFollowUpHistory == 8

\* the longest transcript of the single call of any caller
MaxOneCallHistory == 12

\* the longest transcript of a call that stays in the discussion of solutions
MaxGenerationHistory == 14

\* the longest list of records a fetch returns
MaxRecords == 2

\* the longest string given to the phone normalisation, in characters
MaxPhoneLen == 3

\* the number of threads that call start_call at the same time
NumThreads == 3

\* the longest log of emails, and of callbacks, when the action log is used on its own
MaxLog == 3

---------------------------------------------------------------------------
(* ConversationState (src/prompt.py) *)

GREETING == "greeting"
COLLECTING_INFO == "collecting_info"
DISCUSSING_SOLUTIONS == "discussing_solutions"
OFFERING_FOLLOW_UP == "offering_follow_up"
SCHEDULING == "scheduling"
CLOSING == "closing"
ERROR == "error"

ConversationState ==
    {GREETING, COLLECTING_INFO, DISCUSSING_SOLUTIONS, OFFERING_FOLLOW_UP,
     SCHEDULING, CLOSING, ERROR}

\* self.info_collection_fields, also required_fields of _has_complete_info
info_collection_fields ==
    <<"pharmacy_name", "location", "rx_volume", "contact_person", "email">>

FieldNames == {info_collection_fields[i] : i \in 1..Len(info_collection_fields)}

\* the failure count from which _handle_info_collection stops calling the AI tier
AI_FAILURE_LIMIT == 3

\* conversation_history[-10:] in _generate_ai_response
HISTORY_WINDOW == 10

---------------------------------------------------------------------------
(* Python values.  A value is an integer, a string (the list of its words, *)
(* the empty list being the empty string) or None, in one record shape.    *)

IntVal(n) == [kind |-> "int", text |-> <<>>, num |-> n]
StrVal(ws) == [kind |-> "str", text |-> ws, num |-> 0]
NoneVal == [kind |-> "none", text |-> <<>>, num |-> 0]

\* bool(v)
Truthy(v) ==
    CASE v.kind = "int" -> v.num # 0
      [] v.kind = "str" -> v.text # <<>>
      [] OTHER -> FALSE

\* dict.get(key, default)
DictGet(d, key, default) == IF key \in DOMAIN d THEN d[key] ELSE default

\* d.update(u)
DictUpdate(d, u) ==
    [k \in (DOMAIN d) \cup (DOMAIN u) |-> IF k \in DOMAIN u THEN u[k] ELSE d[k]]

\* d[key] = v
DictSet(d, key, v) ==
    [k \in (DOMAIN d) \cup {key} |-> IF k = key THEN v ELSE d[k]]

EmptyDict == [k \in {} |-> NoneVal]

\* seq[-n:]
LastN(seq, n) ==
    IF Len(seq) <= n THEN seq ELSE SubSeq(seq, Len(seq) - n + 1, Len(seq))

---------------------------------------------------------------------------
(* The vocabulary: what the code's tests find in each word.                *)

\* the keywords k of the handlers' lists with  k in word.lower()
KeywordsIn(w) ==
    CASE w = "Pharmacy" -> {"pharmacy"}
      [] w = "john@pharmacy.com" -> {"pharmacy"}
      [] w = "information" -> {"information"}
      [] w = "email" -> {"email"}
      [] w = "call" -> {"call"}
      [] w = "tomorrow" -> {"tomorrow"}
      [] w = "no" -> {"no"}
      [] w = "thanks" -> {"thanks"}
      [] w = "consultation" -> {"consultation"}
      [] w = "yes" -> {"yes"}
      [] w = "interested" -> {"interested"}
      [] w = "more" -> {"more"}
      [] w = "details" -> {"details"}
      [] w = "monday" -> {"monday"}
      [] w = "friday" -> {"friday"}
      [] w = "morning" -> {"morning"}
      [] w = "afternoon" -> {"afternoon", "no"}
      [] w = "next" -> {"next"}
      [] w = "week" -> {"week"}
      [] w = "nothing" -> {"nothing", "no"}
      [] w = "goodbye" -> {"goodbye", "bye"}
      [] OTHER -> {}

\* word.lower()
Lower(w) ==
    CASE w = "Pharmacy" -> "pharmacy"
      [] w = "Sunset" -> "sunset"
      [] w = "We" -> "we"
      [] w = "Please" -> "please"
      [] OTHER -> w

\* int(re.findall(r"\d+", word)[0]), or -1 when the word holds no digit
FirstDigitRun(w) ==
    CASE w = "1500" -> 1500
      [] w = "0" -> 0
      [] OTHER -> -1

\* word.isdigit()
IsDigit(w) == w \in {"1500", "0"}

\* re.findall(email_pattern, word): the matches found in the word
EmailIn(w) ==
    CASE w = "john@pharmacy.com" -> <<"john@pharmacy.com">>
      [] OTHER -> <<>>

\* keyword in user_message.lower(), for a keyword without a space
Contains(m, keyword) == \E i \in 1..Len(m) : keyword \in KeywordsIn(m[i])

\* any(keyword in user_message.lower() for keyword in keywords)
ContainsAny(m, keywords) == \E k \in keywords : Contains(m, k)

\* the index of the first word with  any(k in word.lower() for k in keywords)
FirstWordWith(m, keywords) ==
    CHOOSE i \in 1..Len(m) :
        /\ KeywordsIn(m[i]) \cap keywords # {}
        /\ \A j \in 1..(i - 1) : KeywordsIn(m[j]) \cap keywords = {}

\* words[i - 1] + " " + word  if i > 0 else  word
WithPreviousWord(m, i) == IF i > 1 THEN <<m[i - 1], m[i]>> ELSE <<m[i]>>

---------------------------------------------------------------------------
(* Replies (PromptTemplates and ResponseTemplates, src/prompt.py, and the   *)
(* literal strings of src/llm.py).  A reply is identified by its template  *)
(* and by the arguments formatted into it.                                 *)

Reply(kind, field, name, detail) ==
    [kind |-> kind, field |-> field, name |-> name, detail |-> detail]

\* no value returned yet (before the first operation, and by reset_conversation)
NoReply == Reply("no_reply", "", NoneVal, "")

\* PromptTemplates.format_greeting, for an existing customer and for a new lead
format_greeting_existing(data) == Reply("EXISTING_CUSTOMER_GREETING", "", data.name, "")
format_greeting_new == Reply("NEW_LEAD_GREETING", "", NoneVal, "Alex")

API_ERROR_MESSAGE == Reply("API_ERROR_MESSAGE", "", NoneVal, "")
GENERAL_CLOSING == Reply("GENERAL_CLOSING", "", NoneVal, "")

\* ResponseTemplates.get_collecting_info_response(field)
get_collecting_info_response(field) == Reply("collecting_info_response", field, NoneVal, "")

\* ResponseTemplates.get_solution_benefits(rx_volume), rx_volume a number
get_solution_benefits(rx_volume) ==
    Reply("solution_benefits", "", NoneVal,
          IF rx_volume.num >= 1000 THEN "high-volume"
          ELSE IF rx_volume.num >= 500 THEN "mid-volume" ELSE "low-volume")

\* rx_volume >= 1000 raises TypeError when rx_volume is not a number
solution_benefits_raises(rx_volume) == rx_volume.kind # "int"

get_follow_up_options == Reply("follow_up_options", "", NoneVal, "")
format_callback_offer == Reply("CALLBACK_OFFER", "", NoneVal, "")

\* PromptTemplates.format_successful_closing(action_taken, expected_outcome, pharmacy_name)
format_successful_closing(action_taken, pharmacy_name) ==
    Reply("SUCCESSFUL_CLOSING", "", pharmacy_name, action_taken)

\* the literal replies of src/llm.py
DEFAULT_REPLY == Reply("here_to_help", "", NoneVal, "")
TECHNICAL_DIFFICULTIES == Reply("technical_difficulties", "", NoneVal, "")
HAPPY_TO_HELP == Reply("happy_to_help_get_started", "", NoneVal, "")
ASK_EMAIL_ADDRESS == Reply("whats_your_email_address", "", NoneVal, "")
REPEAT_OFFER == Reply("email_or_consultation_call", "", NoneVal, "")
ANYTHING_ELSE == Reply("anything_else", "", NoneVal, "")
BACK_ONLINE == Reply("back_online", "", NoneVal, "")
FALLBACK_MODE == Reply("fallback_mode", "", NoneVal, "")
AI_APOLOGY == Reply("trouble_generating_a_response", "", NoneVal, "")

\* response.choices[0].message.content, returned as it is: a text, "" or None
LLMReply(content) == Reply("llm_content", "", NoneVal, content)

\* isinstance(reply, str) and len(reply) > 0
IsNonEmptyString(reply) ==
    /\ reply.kind # "no_reply"
    /\ ~(reply.kind = "llm_content" /\ reply.detail \in {"empty", "none"})

---------------------------------------------------------------------------
(* The pharmacy directory (PharmacyData, src/integration.py).              *)

PharmacyData(id, name, phone, location, rx_volume, contact_person, email) ==
    [id |-> id, name |-> name, phone |-> phone, location |-> location,
     rx_volume |-> rx_volume, contact_person |-> contact_person, email |-> email]

\* self.pharmacy_data = None
NoPharmacy ==
    PharmacyData("None", NoneVal, NoneVal, NoneVal, NoneVal, NoneVal, NoneVal)

\* the records the directory can return: one with an email address, one without
Directory ==
    { PharmacyData("1", StrVal(<<"Test", "Pharmacy">>), StrVal(<<"555-123-4567">>),
                   StrVal(<<"Test", "City">>), IntVal(1500),
                   StrVal(<<"John", "Doe">>), StrVal(<<"john@testpharmacy.com">>)),
      PharmacyData("2", StrVal(<<"Corner", "Drugs">>), StrVal(<<"555-777-8888">>),
                   StrVal(<<"Orlando">>), IntVal(300),
                   StrVal(<<"Ann", "Lee">>), NoneVal) }

PhoneNumbers == {"555-123-4567", "555-777-8888", "555-999-9999"}

\* what self.pharmacy_api.get_pharmacy_by_phone(phone_number) can do: return the
\* record of that phone, return None (no match, or the fetch failed), or raise
LookupOutcomes(phone_number) ==
    { [kind |-> "found", data |-> d] : d \in {x \in Directory : x.phone = StrVal(<<phone_number>>)} }
    \cup { [kind |-> "not_found", data |-> NoPharmacy],
           [kind |-> "raises", data |-> NoPharmacy] }

---------------------------------------------------------------------------
(* The directory client (PharmacyAPI, src/integration.py).  A phone string *)
(* is the list of its characters.                                          *)

\* self.max_retries and self.retry_delay
max_retries == 3
retry_delay == 1

\* the characters of the model's phone strings, and str.isdigit on them (it
\* accepts every Unicode digit, the superscript two among them)
PhoneChars == {"5", "1", "2", "-", "(", ")", ".", "a", "²"}
IsDigitChar(c) == c \in {"5", "1", "2", "²"}

\* a normalisation that removes the punctuation of a phone number only
clean_phone_number_punctuation_only(phone) ==
    StrVal(SelectSeq(phone.text, LAMBDA c : c \notin {"-", "(", ")", "."}))

\* _clean_phone_number: "".join(filter(str.isdigit, phone))
clean_phone_number(phone) == StrVal(SelectSeq(phone.text, IsDigitChar))

\* a record of the fetched list: a JSON object with its keys, or another JSON value
RawRecord(fields) == [is_dict |-> TRUE, fields |-> fields]
NotARecord == [is_dict |-> FALSE, fields |-> EmptyDict]

RawTest ==
    RawRecord([id |-> StrVal(<<"1">>), name |-> StrVal(<<"Test", "Pharmacy">>),
               phone |-> StrVal(<<"5", "-", "1">>), location |-> StrVal(<<"Test", "City">>),
               rx_volume |-> StrVal(<<"1500">>), contact_person |-> StrVal(<<"John", "Doe">>),
               email |-> StrVal(<<"john@testpharmacy.com">>)])
RawTwin ==
    RawRecord([id |-> StrVal(<<"2">>), name |-> StrVal(<<"Twin", "Pharmacy">>),
               phone |-> StrVal(<<"(", "5", ")", "1">>), location |-> StrVal(<<"Orlando">>),
               rx_volume |-> IntVal(300), contact_person |-> StrVal(<<"Ann", "Lee">>),
               email |-> NoneVal])
RawOther ==
    RawRecord([id |-> StrVal(<<"3">>), name |-> StrVal(<<"Corner", "Drugs">>),
               phone |-> StrVal(<<"5", ".", "2">>), location |-> StrVal(<<"Tampa">>),
               rx_volume |-> IntVal(800), contact_person |-> StrVal(<<"Sam", "Roe">>),
               email |-> StrVal(<<"sam@cornerdrugs.com">>)])
\* malformed records: a volume that is no number (and fields missing), a null
\* phone, no phone at all, and a value that is no object
RawBadVolume ==
    RawRecord([id |-> StrVal(<<"4">>), name |-> StrVal(<<"Test", "Pharmacy">>),
               phone |-> StrVal(<<"5", "-", "1">>),
               rx_volume |-> StrVal(<<"invalid_number">>)])
RawNullPhone ==
    RawRecord([id |-> StrVal(<<"5">>), name |-> StrVal(<<"Test", "Pharmacy">>),
               phone |-> NoneVal, rx_volume |-> StrVal(<<"invalid_number">>)])
RawNoPhone ==
    RawRecord([id |-> StrVal(<<"6">>), name |-> StrVal(<<"Test", "Pharmacy">>),
               rx_volume |-> NoneVal])

RawRecords == {RawTest, RawTwin, RawOther, RawBadVolume, RawNullPhone, RawNoPhone, NotARecord}
MalformedRecords == {RawBadVolume, RawNullPhone, RawNoPhone, NotARecord}

\* what session.get(...), raise_for_status() and response.json() can do in one
\* attempt: raise Timeout, ConnectionError or HTTPError; fail to decode the body
\* (requests raises its own JSONDecodeError, a RequestException, or a plain
\* ValueError, by its version); or give the decoded payload
Response(kind, payload) == [kind |-> kind, payload |-> payload]
\* a payload: a list of records, or a JSON value that is no list
Payload(kind, records) == [kind |-> kind, records |-> records]

Payloads ==
    { Payload("list", records) :
        records \in UNION { [1..n -> RawRecords] : n \in 0..MaxRecords } }
    \cup { Payload("null", <<>>), Payload("object", <<>>) }

FailedResponses ==
    { Response(k, Payload("null", <<>>)) :
        k \in {"Timeout", "ConnectionError", "HTTPError",
               "RequestsJSONDecodeError", "ValueError"} }

Responses == FailedResponses \cup { Response("payload", p) : p \in Payloads }

\* what a piece of code does: return a value or raise an exception
Return(data) == [kind |-> "returns", exception |-> "", data |-> data]
Raise(exception) == [kind |-> "raises", exception |-> exception, data |-> NoPharmacy]

\* str(data.get("id", ""))
id_of(data) ==
    IF "id" \in DOMAIN data /\ data["id"].kind = "str" /\ data["id"].text # <<>>
    THEN data["id"].text[1]
    ELSE IF "id" \in DOMAIN data /\ data["id"].kind = "none" THEN "None" ELSE ""

\* int(data.get("rx_volume", 0)) raises ValueError or TypeError
int_raises(v) ==
    ~(v.kind = "int" \/ (v.kind = "str" /\ Len(v.text) = 1 /\ IsDigit(v.text[1])))
int_of(v) == IF v.kind = "int" THEN v ELSE IntVal(FirstDigitRun(v.text[1]))

\* _parse_pharmacy_data: the record, with safe values when the volume is no number
parse_pharmacy_data(data) ==
    LET rx_volume == DictGet(data, "rx_volume", IntVal(0))
    IN  IF ~int_raises(rx_volume)
        THEN PharmacyData(id_of(data),
                          DictGet(data, "name", StrVal(<<>>)),
                          DictGet(data, "phone", StrVal(<<>>)),
                          DictGet(data, "location", StrVal(<<>>)),
                          int_of(rx_volume),
                          DictGet(data, "contact_person", StrVal(<<>>)),
                          DictGet(data, "email", NoneVal))
        ELSE PharmacyData(id_of(data),
                          DictGet(data, "name", StrVal(<<"Unknown", "Pharmacy">>)),
                          DictGet(data, "phone", StrVal(<<>>)),
                          DictGet(data, "location", StrVal(<<"Unknown", "Location">>)),
                          IntVal(0),
                          DictGet(data, "contact_person", StrVal(<<"Unknown", "Contact">>)),
                          DictGet(data, "email", NoneVal))

\* the loop over the fetched list: pharmacy.get raises AttributeError on a
\* value that is no object, _clean_phone_number raises TypeError on a phone
\* that is no string; the first record whose cleaned phone matches is parsed
RECURSIVE find_pharmacy(_, _)
find_pharmacy(pharmacies, cleaned_phone) ==
    IF pharmacies = <<>>
    THEN Return(NoPharmacy)
    ELSE LET pharmacy == Head(pharmacies)
             phone == DictGet(pharmacy.fields, "phone", StrVal(<<>>))
         IN  IF ~pharmacy.is_dict
             THEN Raise("AttributeError")
             ELSE IF phone.kind # "str"
                  THEN Raise("TypeError")
                  ELSE IF clean_phone_number(phone) = cleaned_phone
                       THEN Return(parse_pharmacy_data(pharmacy.fields))
                       ELSE find_pharmacy(Tail(pharmacies), cleaned_phone)

\* the try block of one attempt of get_pharmacy_by_phone
attempt_body(phone_number, response) ==
    LET cleaned_phone == clean_phone_number(phone_number)
    IN  CASE response.kind # "payload" -> Raise(response.kind)
          [] response.payload.kind = "list" ->
                 find_pharmacy(response.payload.records, cleaned_phone)
          [] response.payload.kind = "null" -> Raise("TypeError")
          [] OTHER -> Raise("AttributeError")

\* a faulty variant of except_clause: the last clause, except Exception, is missing
except_clause_without_last(exception) ==
    IF exception \in {"Timeout", "ConnectionError", "HTTPError", "RequestsJSONDecodeError"}
    THEN "retry"
    ELSE "propagate"

\* the except clauses of get_pharmacy_by_phone: the clause an exception
\* reaches.  requests' Timeout, ConnectionError, HTTPError and JSONDecodeError
\* are RequestExceptions; every other exception here is an Exception.
except_clause(exception) ==
    CASE exception = "Timeout" -> "retry"
      [] exception = "ConnectionError" -> "retry"
      [] exception \in {"HTTPError", "RequestsJSONDecodeError"} -> "retry"
      [] OTHER -> "return None"

---------------------------------------------------------------------------
(* The language model.                                                     *)

\* a value the model extracts for a field when it reads the message well
GoodValue(field) ==
    CASE field = "pharmacy_name" -> StrVal(<<"Sunset", "Pharmacy">>)
      [] field = "location" -> StrVal(<<"San", "Diego">>)
      [] field = "rx_volume" -> IntVal(1500)
      [] field = "contact_person" -> StrVal(<<"Sarah", "Johnson">>)
      [] field = "email" -> StrVal(<<"sarah@sunsetpharmacy.com">>)

Completion(kind, fence, object) == [kind |-> kind, fence |-> fence, object |-> object]

\* no request is sent
NoCompletion == Completion("not_called", "", EmptyDict)

\* the JSON objects the model may answer an extraction request for a field with
ExtractionObjects(field) ==
    { [k \in {field} |-> GoodValue(field)],
      [k \in {field} |-> NoneVal],
      [k \in {field} |-> StrVal(<<>>)],
      [k \in {field} |-> IntVal(0)],
      [k \in {field} |-> IntVal(-5)],
      [k \in {field} |-> StrVal(<<"1500">>)],
      [k \in {field} |-> StrVal(<<"many">>)],
      [k \in FieldNames \ {field} |-> GoodValue(k)],
      [k \in FieldNames |-> GoodValue(k)],
      [k \in FieldNames |-> IF k = "rx_volume" THEN StrVal(<<"many">>) ELSE GoodValue(k)],
      [k \in FieldNames |-> IF k = "rx_volume" THEN StrVal(<<"1500">>) ELSE GoodValue(k)],
      [k \in FieldNames |-> IF k = "rx_volume" THEN IntVal(750) ELSE GoodValue(k)] }

\* what client.chat.completions.create can do on an extraction request: raise, or
\* return a content that is None, empty, not JSON, JSON but no object, or a JSON
\* object, bare or inside a code fence (opened with the json tag, or without it)
ExtractionOutcomes(field) ==
    { Completion(k, "", EmptyDict) : k \in {"raises", "none", "empty", "malformed", "not_object"} }
    \cup { Completion("object", "", o) : o \in ExtractionObjects(field) }
    \cup { Completion("object", f, [k \in {field} |-> GoodValue(field)]) : f \in {"json_fence", "plain_fence"} }

\* what it can do on a generation request: raise, or return a text, "" or None
GenerationOutcomes ==
    { Completion(k, "", EmptyDict) : k \in {"raises", "text", "empty", "none"} }

\* one request to the language model, as recorded in llm_requests
Request(kind, field, user_message, messages) ==
    [kind |-> kind, field |-> field, user_message |-> user_message, messages |-> messages]

\* an entry of conversation_history, {"role": role, "content": content}: the
\* content is a text (system and user entries) or a reply (assistant entries)
Entry(role, text, reply) == [role |-> role, text |-> text, reply |-> reply]

SYSTEM_PROMPT == Entry("system", <<"SYSTEM_PROMPT">>, NoReply)

---------------------------------------------------------------------------
(* The engine (PharmacyChatbot, src/llm.py).  The handlers are operators    *)
(* on the engine's fields, gathered in a record e; each gives the fields   *)
(* after the call, the reply returned and whether the call raised.         *)

Engine ==
    [ai_available |-> ai_available,
     ai_extraction_failures |-> ai_extraction_failures,
     current_state |-> current_state,
     conversation_history |-> conversation_history,
     pharmacy_data |-> pharmacy_data,
     collected_info |-> collected_info,
     current_info_field |-> current_info_field,
     sent_emails |-> sent_emails,
     scheduled_callbacks |-> scheduled_callbacks,
     llm_requests |-> <<>>]

Returns(e, reply) == [e |-> e, reply |-> reply, raised |-> FALSE]
Raises(e) == [e |-> e, reply |-> NoReply, raised |-> TRUE]

\* _has_complete_info
has_complete_info(info) ==
    \A i \in 1..Len(info_collection_fields) :
        /\ info_collection_fields[i] \in DOMAIN info
        /\ Truthy(info[info_collection_fields[i]])

\* field not in self.collected_info or not self.collected_info[field]
IsMissing(info, field) == field \notin DOMAIN info \/ ~Truthy(info[field])

\* _get_next_missing_field
get_next_missing_field(info) ==
    IF \E i \in 1..Len(info_collection_fields) : IsMissing(info, info_collection_fields[i])
    THEN info_collection_fields[
             CHOOSE i \in 1..Len(info_collection_fields) :
                 /\ IsMissing(info, info_collection_fields[i])
                 /\ \A j \in 1..(i - 1) : ~IsMissing(info, info_collection_fields[j])]
    ELSE "pharmacy_name"

HealthWords ==
    {"natural", "health", "care", "medical", "wellness", "supplements", "products"}
LocationWords == {"city", "town", "street", "avenue", "road"}
TitleWords == {"manager", "owner", "director", "pharmacist"}

Extracted(v) == [found |-> TRUE, value |-> v]
NotExtracted == [found |-> FALSE, value |-> NoneVal]

\* a faulty variant of the extraction: a location of at most 3 words is not taken
manual_extraction_without_short_location(field, m) ==
    CASE field = "pharmacy_name" ->
            IF Contains(m, "pharmacy")
            THEN Extracted(StrVal(WithPreviousWord(m, FirstWordWith(m, {"pharmacy"}))))
            ELSE IF Len(m) <= 3 THEN Extracted(StrVal(m))
            ELSE IF \E i \in 1..Len(m) : Lower(m[i]) \in HealthWords
                 THEN Extracted(StrVal(m))
                 ELSE NotExtracted
      [] field = "location" ->
            IF Len(m) > 3 /\ ~ContainsAny(m, LocationWords) THEN Extracted(StrVal(m))
            ELSE IF ContainsAny(m, LocationWords)
                 THEN Extracted(StrVal(WithPreviousWord(m, FirstWordWith(m, LocationWords))))
                 ELSE NotExtracted
      [] field = "rx_volume" ->
            IF \E i \in 1..Len(m) : FirstDigitRun(m[i]) >= 0
            THEN Extracted(IntVal(FirstDigitRun(
                     m[CHOOSE i \in 1..Len(m) :
                           /\ FirstDigitRun(m[i]) >= 0
                           /\ \A j \in 1..(i - 1) : FirstDigitRun(m[j]) < 0])))
            ELSE NotExtracted
      [] field = "contact_person" ->
            IF Len(m) <= 3 THEN Extracted(StrVal(m))
            ELSE IF ContainsAny(m, TitleWords)
                 THEN Extracted(StrVal(WithPreviousWord(m, FirstWordWith(m, TitleWords))))
                 ELSE NotExtracted
      [] field = "email" ->
            IF \E i \in 1..Len(m) : EmailIn(m[i]) # <<>>
            THEN Extracted(StrVal(EmailIn(
                     m[CHOOSE i \in 1..Len(m) :
                           /\ EmailIn(m[i]) # <<>>
                           /\ \A j \in 1..(i - 1) : EmailIn(m[j]) = <<>>])))
            ELSE NotExtracted

\* a faulty variant of manual_extraction: the volume is taken only from a
\* message that is a number and nothing else
manual_extraction_of_bare_number(field, m) ==
    CASE field = "pharmacy_name" ->
            IF Contains(m, "pharmacy")
            THEN Extracted(StrVal(WithPreviousWord(m, FirstWordWith(m, {"pharmacy"}))))
            ELSE IF Len(m) <= 3 THEN Extracted(StrVal(m))
            ELSE IF \E i \in 1..Len(m) : Lower(m[i]) \in HealthWords
                 THEN Extracted(StrVal(m))
                 ELSE NotExtracted
      [] field = "location" ->
            IF Len(m) <= 3 THEN Extracted(StrVal(m))
            ELSE IF ContainsAny(m, LocationWords)
                 THEN Extracted(StrVal(WithPreviousWord(m, FirstWordWith(m, LocationWords))))
                 ELSE NotExtracted
      [] field = "rx_volume" ->
            IF Len(m) = 1 /\ IsDigit(m[1])
            THEN Extracted(IntVal(FirstDigitRun(
                     m[CHOOSE i \in 1..Len(m) :
                           /\ FirstDigitRun(m[i]) >= 0
                           /\ \A j \in 1..(i - 1) : FirstDigitRun(m[j]) < 0])))
            ELSE NotExtracted
      [] field = "contact_person" ->
            IF Len(m) <= 3 THEN Extracted(StrVal(m))
            ELSE IF ContainsAny(m, TitleWords)
                 THEN Extracted(StrVal(WithPreviousWord(m, FirstWordWith(m, TitleWords))))
                 ELSE NotExtracted
      [] field = "email" ->
            IF \E i \in 1..Len(m) : EmailIn(m[i]) # <<>>
            THEN Extracted(StrVal(EmailIn(
                     m[CHOOSE i \in 1..Len(m) :
                           /\ EmailIn(m[i]) # <<>>
                           /\ \A j \in 1..(i - 1) : EmailIn(m[j]) = <<>>])))
            ELSE NotExtracted

\* the keyword-based extraction of _handle_manual_info_collection, per field:
\* whether info_extracted is set, and the value stored in collected_info[field]
manual_extraction(field, m) ==
    CASE field = "pharmacy_name" ->
            IF Contains(m, "pharmacy")
            THEN Extracted(StrVal(WithPreviousWord(m, FirstWordWith(m, {"pharmacy"}))))
            ELSE IF Len(m) <= 3 THEN Extracted(StrVal(m))
            ELSE IF \E i \in 1..Len(m) : Lower(m[i]) \in HealthWords
                 THEN Extracted(StrVal(m))
                 ELSE NotExtracted
      [] field = "location" ->
            IF Len(m) <= 3 THEN Extracted(StrVal(m))
            ELSE IF ContainsAny(m, LocationWords)
                 THEN Extracted(StrVal(WithPreviousWord(m, FirstWordWith(m, LocationWords))))
                 ELSE NotExtracted
      [] field = "rx_volume" ->
            IF \E i \in 1..Len(m) : FirstDigitRun(m[i]) >= 0
            THEN Extracted(IntVal(FirstDigitRun(
                     m[CHOOSE i \in 1..Len(m) :
                           /\ FirstDigitRun(m[i]) >= 0
                           /\ \A j \in 1..(i - 1) : FirstDigitRun(m[j]) < 0])))
            ELSE NotExtracted
      [] field = "contact_person" ->
            IF Len(m) <= 3 THEN Extracted(StrVal(m))
            ELSE IF ContainsAny(m, TitleWords)
                 THEN Extracted(StrVal(WithPreviousWord(m, FirstWordWith(m, TitleWords))))
                 ELSE NotExtracted
      [] field = "email" ->
            IF \E i \in 1..Len(m) : EmailIn(m[i]) # <<>>
            THEN Extracted(StrVal(EmailIn(
                     m[CHOOSE i \in 1..Len(m) :
                           /\ EmailIn(m[i]) # <<>>
                           /\ \A j \in 1..(i - 1) : EmailIn(m[j]) = <<>>])))
            ELSE NotExtracted

\* the end of _handle_manual_info_collection and of the AI branch: the state is
\* set, then get_solution_benefits(self.collected_info.get("rx_volume", 0))
to_solution_discussion(e) ==
    LET moved == [e EXCEPT !.current_state = DISCUSSING_SOLUTIONS]
        rx_volume == DictGet(e.collected_info, "rx_volume", IntVal(0))
    IN  IF solution_benefits_raises(rx_volume)
        THEN Raises(moved)
        ELSE Returns(moved, get_solution_benefits(rx_volume))

\* _handle_manual_info_collection.  info_collection_fields[current_info_field]
\* raises IndexError when the cursor has moved past the last field.
handle_manual_info_collection(e, m) ==
    IF e.current_info_field >= Len(info_collection_fields)
    THEN to_solution_discussion(e)
    ELSE LET field == info_collection_fields[e.current_info_field + 1]
             x == manual_extraction(field, m)
             e1 == IF x.found
                   THEN [e EXCEPT !.collected_info = DictSet(@, field, x.value),
                                  !.current_info_field = @ + 1]
                   ELSE e
         IN  IF has_complete_info(e1.collected_info)
             THEN to_solution_discussion(e1)
             ELSE IF x.found
                  THEN IF e1.current_info_field >= Len(info_collection_fields)
                       THEN Raises(e1)
                       ELSE Returns(e1, get_collecting_info_response(
                                info_collection_fields[e1.current_info_field + 1]))
                  ELSE Returns(e1, get_collecting_info_response(field))

\* the parsing of _extract_pharmacy_info_for_field: {} when the call raised, when
\* the content is None (content.strip() raises), empty or not a JSON object, and
\* when a fence without the json tag is left in front of it; otherwise the
\* object without its null values
parse_extraction(completion) ==
    IF completion.kind = "object" /\ completion.fence # "plain_fence"
    THEN [k \in {x \in DOMAIN completion.object : completion.object[x].kind # "none"}
             |-> completion.object[k]]
    ELSE EmptyDict

\* _extract_pharmacy_info_for_field: the engine with the request logged, and the result
extract_pharmacy_info_for_field(e, m, field, completion) ==
    IF ~e.ai_available
    THEN [e |-> e, info |-> EmptyDict]
    ELSE [e |-> [e EXCEPT !.llm_requests = Append(@, Request("extraction", field, m, <<>>))],
          info |-> parse_extraction(completion)]

\* isinstance(value, str) and value.isdigit(): the value converted by int(value)
coerce_rx_volume(value) ==
    IF value.kind = "str" /\ Len(value.text) = 1 /\ IsDigit(value.text[1])
    THEN IntVal(FirstDigitRun(value.text[1]))
    ELSE value

\* not isinstance(value, (int, float)) or value <= 0
invalid_rx_volume(value) == value.kind # "int" \/ value.num <= 0

\* a faulty variant of ai_tier_enabled: the limit is compared with <=
ai_tier_enabled_inclusive(e) ==
    e.ai_available /\ e.ai_extraction_failures <= AI_FAILURE_LIMIT

\* the branch of _handle_info_collection taken while the AI tier is enabled
ai_tier_enabled(e) == e.ai_available /\ e.ai_extraction_failures < AI_FAILURE_LIMIT

\* a faulty variant of info_collection_body: after a failed extraction the
\* question is asked again, the message is not given to the manual tier
info_collection_body_without_fallback(e, m, completion) ==
    LET current_field == get_next_missing_field(e.collected_info)
    IN  IF ai_tier_enabled(e)
        THEN LET x == extract_pharmacy_info_for_field(e, m, current_field, completion)
                 accepted == /\ DOMAIN x.info # {}
                             /\ current_field \in DOMAIN x.info
                             /\ Truthy(x.info[current_field])
                 extracted_info ==
                     IF accepted /\ current_field = "rx_volume"
                     THEN DictSet(x.info, current_field, coerce_rx_volume(x.info[current_field]))
                     ELSE x.info
                 valid_extraction ==
                     ~(current_field = "rx_volume" /\ invalid_rx_volume(extracted_info[current_field]))
                 failed == [x.e EXCEPT !.ai_extraction_failures = @ + 1]
             IN  IF accepted /\ valid_extraction
                 THEN LET e1 == [x.e EXCEPT !.collected_info = DictUpdate(@, extracted_info)]
                      IN  IF has_complete_info(e1.collected_info)
                          THEN to_solution_discussion(e1)
                          ELSE Returns(e1, get_collecting_info_response(
                                   get_next_missing_field(e1.collected_info)))
                 ELSE Returns(failed, get_collecting_info_response(current_field))
        ELSE handle_manual_info_collection(e, m)

\* the body of the try block of _handle_info_collection
info_collection_body(e, m, completion) ==
    LET current_field == get_next_missing_field(e.collected_info)
    IN  IF ai_tier_enabled(e)
        THEN LET x == extract_pharmacy_info_for_field(e, m, current_field, completion)
                 accepted == /\ DOMAIN x.info # {}
                             /\ current_field \in DOMAIN x.info
                             /\ Truthy(x.info[current_field])
                 extracted_info ==
                     IF accepted /\ current_field = "rx_volume"
                     THEN DictSet(x.info, current_field, coerce_rx_volume(x.info[current_field]))
                     ELSE x.info
                 valid_extraction ==
                     ~(current_field = "rx_volume" /\ invalid_rx_volume(extracted_info[current_field]))
                 failed == [x.e EXCEPT !.ai_extraction_failures = @ + 1]
             IN  IF accepted /\ valid_extraction
                 THEN LET e1 == [x.e EXCEPT !.collected_info = DictUpdate(@, extracted_info)]
                      IN  IF has_complete_info(e1.collected_info)
                          THEN to_solution_discussion(e1)
                          ELSE Returns(e1, get_collecting_info_response(
                                   get_next_missing_field(e1.collected_info)))
                 ELSE handle_manual_info_collection(failed, m)
        ELSE handle_manual_info_collection(e, m)

\* _handle_info_collection: an exception of the body is caught, and the message
\* is handled by _handle_manual_info_collection once more
handle_info_collection(e, m, completion) ==
    LET r == info_collection_body(e, m, completion)
    IN  IF r.raised THEN handle_manual_info_collection(r.e, m) ELSE r

\* a faulty variant of _generate_ai_response: a failure of the request is not caught
generate_ai_response_uncaught(e, m, completion) ==
    IF ~e.ai_available
    THEN Returns(e, FALLBACK_MODE)
    ELSE LET messages == <<SYSTEM_PROMPT>>
                         \o LastN(e.conversation_history, HISTORY_WINDOW)
                         \o <<Entry("user", m, NoReply)>>
             e1 == [e EXCEPT !.llm_requests = Append(@, Request("generation", "", m, messages))]
         IN  IF completion.kind = "raises"
             THEN Raises(e1)
             ELSE Returns(e1, LLMReply(completion.kind))

\* a faulty variant of _generate_ai_response: the whole transcript is sent
generate_ai_response_whole_transcript(e, m, completion) ==
    IF ~e.ai_available
    THEN Returns(e, FALLBACK_MODE)
    ELSE LET messages == <<SYSTEM_PROMPT>>
                         \o e.conversation_history
                         \o <<Entry("user", m, NoReply)>>
             e1 == [e EXCEPT !.llm_requests = Append(@, Request("generation", "", m, messages))]
         IN  IF completion.kind = "raises"
             THEN Returns(e1, AI_APOLOGY)
             ELSE Returns(e1, LLMReply(completion.kind))

\* _generate_ai_response
generate_ai_response(e, m, completion) ==
    IF ~e.ai_available
    THEN Returns(e, FALLBACK_MODE)
    ELSE LET messages == <<SYSTEM_PROMPT>>
                         \o LastN(e.conversation_history, HISTORY_WINDOW)
                         \o <<Entry("user", m, NoReply)>>
             e1 == [e EXCEPT !.llm_requests = Append(@, Request("generation", "", m, messages))]
         IN  IF completion.kind = "raises"
             THEN Returns(e1, AI_APOLOGY)
             ELSE Returns(e1, LLMReply(completion.kind))

InterestKeywords == {"yes", "interested", "more", "information", "details"}

\* a faulty variant of _handle_solution_discussion: "details" is not a keyword
handle_solution_discussion_without_details(e, m, completion) ==
    IF ContainsAny(m, InterestKeywords \ {"details"})
    THEN Returns([e EXCEPT !.current_state = OFFERING_FOLLOW_UP], get_follow_up_options)
    ELSE IF e.ai_available
         THEN generate_ai_response(e, m, completion)
         ELSE Returns(e, HAPPY_TO_HELP)

\* _handle_solution_discussion
handle_solution_discussion(e, m, completion) ==
    IF ContainsAny(m, InterestKeywords)
    THEN Returns([e EXCEPT !.current_state = OFFERING_FOLLOW_UP], get_follow_up_options)
    ELSE IF e.ai_available
         THEN generate_ai_response(e, m, completion)
         ELSE Returns(e, HAPPY_TO_HELP)

\* a faulty variant of _get_email_address: the address of the caller record is not used
get_email_address_collected_only(e) ==
    IF Truthy(DictGet(e.collected_info, "email", NoneVal))
    THEN e.collected_info["email"]
    ELSE NoneVal

\* _get_email_address
get_email_address(e) ==
    IF Truthy(DictGet(e.collected_info, "email", NoneVal))
    THEN e.collected_info["email"]
    ELSE IF e.pharmacy_data # NoPharmacy /\ Truthy(e.pharmacy_data.email)
         THEN e.pharmacy_data.email
         ELSE NoneVal

\* _get_pharmacy_name
get_pharmacy_name(e) ==
    IF Truthy(DictGet(e.collected_info, "pharmacy_name", NoneVal))
    THEN e.collected_info["pharmacy_name"]
    ELSE IF e.pharmacy_data # NoPharmacy
         THEN e.pharmacy_data.name
         ELSE StrVal(<<"your", "pharmacy">>)

\* a faulty variant of send_email: the except branch is taken, nothing is appended
send_email_failing(emails, data) == emails

\* FollowUpActions.send_welcome_email and send_email: the record appended
send_email(emails, data) ==
    Append(emails,
           [id |-> Len(emails) + 1,
            to_email |-> IF Truthy(data.email) THEN data.email
                         ELSE StrVal(<<"contact@pharmacy.com">>),
            pharmacy_name |-> data.name,
            contact_person |-> data.contact_person,
            status |-> "sent"])

\* a faulty variant of schedule_callback: the identifier is the length before the append
schedule_callback_numbered_from_zero(callbacks, data, preferred_time) ==
    Append(callbacks,
           [id |-> Len(callbacks),
            phone_number |-> data.phone,
            preferred_time |-> preferred_time,
            pharmacy_name |-> data.name,
            contact_person |-> data.contact_person,
            status |-> "scheduled"])

\* FollowUpActions.schedule_consultation and schedule_callback: the record appended
schedule_callback(callbacks, data, preferred_time) ==
    Append(callbacks,
           [id |-> Len(callbacks) + 1,
            phone_number |-> data.phone,
            preferred_time |-> preferred_time,
            pharmacy_name |-> data.name,
            contact_person |-> data.contact_person,
            status |-> "scheduled"])

\* a faulty variant of _handle_follow_up_offer: "consultation" is not looked for
handle_follow_up_offer_without_consultation(e, m) ==
    IF Contains(m, "email")
    THEN LET email == get_email_address(e)
             pharmacy_name == get_pharmacy_name(e)
             data == PharmacyData("new", pharmacy_name, StrVal(<<>>), StrVal(<<>>),
                         DictGet(e.collected_info, "rx_volume", IntVal(0)),
                         DictGet(e.collected_info, "contact_person", StrVal(<<>>)),
                         email)
         IN  IF Truthy(email)
             THEN Returns([e EXCEPT !.sent_emails = send_email(@, data),
                                    !.current_state = CLOSING],
                          format_successful_closing("sent_email", pharmacy_name))
             ELSE Returns(e, ASK_EMAIL_ADDRESS)
    ELSE IF Contains(m, "call")
         THEN Returns([e EXCEPT !.current_state = SCHEDULING], format_callback_offer)
         ELSE Returns(e, REPEAT_OFFER)

\* a faulty variant of _handle_follow_up_offer: without a known address a message
\* with "email" is read for "call" and "consultation" as well
handle_follow_up_offer_call_without_address(e, m) ==
    IF Contains(m, "email") /\ Truthy(get_email_address(e))
    THEN LET email == get_email_address(e)
             pharmacy_name == get_pharmacy_name(e)
             data == PharmacyData("new", pharmacy_name, StrVal(<<>>), StrVal(<<>>),
                         DictGet(e.collected_info, "rx_volume", IntVal(0)),
                         DictGet(e.collected_info, "contact_person", StrVal(<<>>)),
                         email)
         IN  Returns([e EXCEPT !.sent_emails = send_email(@, data),
                                !.current_state = CLOSING],
                      format_successful_closing("sent_email", pharmacy_name))
    ELSE IF Contains(m, "call") \/ Contains(m, "consultation")
         THEN Returns([e EXCEPT !.current_state = SCHEDULING], format_callback_offer)
         ELSE IF Contains(m, "email")
              THEN Returns(e, ASK_EMAIL_ADDRESS)
              ELSE Returns(e, REPEAT_OFFER)

\* _handle_follow_up_offer
handle_follow_up_offer(e, m) ==
    IF Contains(m, "email")
    THEN LET email == get_email_address(e)
             pharmacy_name == get_pharmacy_name(e)
             data == PharmacyData("new", pharmacy_name, StrVal(<<>>), StrVal(<<>>),
                         DictGet(e.collected_info, "rx_volume", IntVal(0)),
                         DictGet(e.collected_info, "contact_person", StrVal(<<>>)),
                         email)
         IN  IF Truthy(email)
             THEN Returns([e EXCEPT !.sent_emails = send_email(@, data),
                                    !.current_state = CLOSING],
                          format_successful_closing("sent_email", pharmacy_name))
             ELSE Returns(e, ASK_EMAIL_ADDRESS)
    ELSE IF Contains(m, "call") \/ Contains(m, "consultation")
         THEN Returns([e EXCEPT !.current_state = SCHEDULING], format_callback_offer)
         ELSE Returns(e, REPEAT_OFFER)

\* time_keywords of _handle_scheduling, in the order they are tried
time_keywords ==
    <<"tomorrow", "next week", "monday", "tuesday", "wednesday", "thursday",
      "friday", "morning", "afternoon", "evening">>

\* keyword in user_message.lower(), also for "next week", which spans two words
ContainsTime(m, keyword) ==
    IF keyword = "next week"
    THEN \E i \in 1..(Len(m) - 1) :
             "next" \in KeywordsIn(m[i]) /\ "week" \in KeywordsIn(m[i + 1])
    ELSE Contains(m, keyword)

\* a faulty variant of preferred_time: the last keyword of the list found in the
\* message is taken (the loop goes on after a match)
preferred_time_of_last_keyword(m) ==
    IF \E i \in 1..Len(time_keywords) : ContainsTime(m, time_keywords[i])
    THEN <<time_keywords[CHOOSE i \in 1..Len(time_keywords) :
                             /\ ContainsTime(m, time_keywords[i])
                             /\ \A j \in (i + 1)..Len(time_keywords) :
                                    ~ContainsTime(m, time_keywords[j])],
           "at 2 PM">>
    ELSE <<"tomorrow", "at 2 PM">>

\* the loop of _handle_scheduling: "<keyword> at 2 PM" for the first keyword of
\* the list found in the message, "tomorrow at 2 PM" when none is
preferred_time(m) ==
    IF \E i \in 1..Len(time_keywords) : ContainsTime(m, time_keywords[i])
    THEN <<time_keywords[CHOOSE i \in 1..Len(time_keywords) :
                             /\ ContainsTime(m, time_keywords[i])
                             /\ \A j \in 1..(i - 1) : ~ContainsTime(m, time_keywords[j])],
           "at 2 PM">>
    ELSE <<"tomorrow", "at 2 PM">>

\* a faulty variant of _handle_scheduling: the callback is recorded and the state
\* is left as it is
handle_scheduling_without_closing(e, m) ==
    LET pharmacy_name == get_pharmacy_name(e)
        phone == IF e.pharmacy_data # NoPharmacy THEN e.pharmacy_data.phone ELSE StrVal(<<>>)
        data == PharmacyData("new", pharmacy_name, phone, StrVal(<<>>),
                    DictGet(e.collected_info, "rx_volume", IntVal(0)),
                    DictGet(e.collected_info, "contact_person", StrVal(<<>>)),
                    StrVal(<<>>))
    IN  Returns([e EXCEPT !.scheduled_callbacks = schedule_callback(@, data, preferred_time(m))],
                format_successful_closing("scheduled_call", pharmacy_name))

\* _handle_scheduling
handle_scheduling(e, m) ==
    LET pharmacy_name == get_pharmacy_name(e)
        phone == IF e.pharmacy_data # NoPharmacy THEN e.pharmacy_data.phone ELSE StrVal(<<>>)
        data == PharmacyData("new", pharmacy_name, phone, StrVal(<<>>),
                    DictGet(e.collected_info, "rx_volume", IntVal(0)),
                    DictGet(e.collected_info, "contact_person", StrVal(<<>>)),
                    StrVal(<<>>))
    IN  Returns([e EXCEPT !.scheduled_callbacks = schedule_callback(@, data, preferred_time(m)),
                          !.current_state = CLOSING],
                format_successful_closing("scheduled_call", pharmacy_name))

ClosingKeywords == {"no", "nothing", "goodbye", "bye", "thanks"}

\* a faulty variant of _handle_closing: any other message reopens the offer
handle_closing_reopening(e, m) ==
    IF ContainsAny(m, ClosingKeywords)
    THEN Returns(e, GENERAL_CLOSING)
    ELSE Returns([e EXCEPT !.current_state = OFFERING_FOLLOW_UP], get_follow_up_options)

\* a faulty variant of _handle_closing: a keyword must be a whole word of the message
handle_closing_on_whole_words(e, m) ==
    IF \E i \in 1..Len(m) : Lower(m[i]) \in ClosingKeywords
    THEN Returns(e, GENERAL_CLOSING)
    ELSE Returns(e, ANYTHING_ELSE)

\* _handle_closing
handle_closing(e, m) ==
    IF ContainsAny(m, ClosingKeywords)
    THEN Returns(e, GENERAL_CLOSING)
    ELSE Returns(e, ANYTHING_ELSE)

\* a faulty variant of _handle_error_recovery: the AI mode is left as it is
handle_error_recovery_keeping_ai(e, m) ==
    Returns([e EXCEPT !.current_state = COLLECTING_INFO], BACK_ONLINE)

\* a faulty variant of _handle_error_recovery: the AI mode is switched on again
handle_error_recovery_enabling_ai(e, m) ==
    Returns([e EXCEPT !.ai_available = TRUE, !.current_state = COLLECTING_INFO],
            BACK_ONLINE)

\* _handle_error_recovery
handle_error_recovery(e, m) ==
    Returns([e EXCEPT !.ai_available = FALSE, !.current_state = COLLECTING_INFO],
            BACK_ONLINE)

\* the end of process_message for what the handler returned, r: the reply is
\* appended and returned; when the handler raised, the except clause returns
\* the fixed text and no assistant entry is appended
process_message_reply(r) ==
    IF r.raised
    THEN Returns(r.e, TECHNICAL_DIFFICULTIES)
    ELSE Returns([r.e EXCEPT !.conversation_history =
                                 Append(@, Entry("assistant", <<>>, r.reply))],
                 r.reply)

\* process_message: the user entry is appended and the handler of the current
\* state runs
process_message(e, m, completion) ==
    LET e0 == [e EXCEPT !.conversation_history = Append(@, Entry("user", m, NoReply))]
    IN  process_message_reply(
            CASE e0.current_state = COLLECTING_INFO -> handle_info_collection(e0, m, completion)
              [] e0.current_state = DISCUSSING_SOLUTIONS -> handle_solution_discussion(e0, m, completion)
              [] e0.current_state = OFFERING_FOLLOW_UP -> handle_follow_up_offer(e0, m)
              [] e0.current_state = SCHEDULING -> handle_scheduling(e0, m)
              [] e0.current_state = CLOSING -> handle_closing(e0, m)
              [] e0.current_state = ERROR -> handle_error_recovery(e0, m)
              [] OTHER -> IF e0.ai_available
                          THEN generate_ai_response(e0, m, completion)
                          ELSE Returns(e0, DEFAULT_REPLY))

\* the try block of start_call after the lookup returned: the greeting of an
\* existing customer or of a new lead, and the two transcript entries
start_call_try(e, phone_number, lookup) ==
    LET e1 == [e EXCEPT !.pharmacy_data = lookup.data]
        greeting == IF lookup.kind = "found"
                    THEN format_greeting_existing(lookup.data)
                    ELSE format_greeting_new
        e2 == IF lookup.kind = "found"
              THEN [e1 EXCEPT !.current_state = DISCUSSING_SOLUTIONS]
              ELSE [e1 EXCEPT !.current_state = COLLECTING_INFO,
                              !.current_info_field = 0]
    IN  Returns([e2 EXCEPT !.conversation_history =
                               @ \o <<Entry("system", <<phone_number>>, NoReply),
                                      Entry("assistant", <<>>, greeting)>>],
                greeting)

\* a faulty variant of start_call: a lookup that raises is taken for no match
start_call_failure_as_miss(e, phone_number, lookup) ==
    start_call_try(e, phone_number,
                   IF lookup.kind = "raises"
                   THEN [kind |-> "not_found", data |-> NoPharmacy]
                   ELSE lookup)

\* start_call: the lookup and the try block; ERROR and the apology when the
\* lookup raises
start_call(e, phone_number, lookup) ==
    IF lookup.kind = "raises"
    THEN Returns([e EXCEPT !.current_state = ERROR], API_ERROR_MESSAGE)
    ELSE start_call_try(e, phone_number, lookup)

\* a faulty variant of reset_conversation: the collected fields are kept
reset_conversation_keeping_collected_info(e) ==
    [e EXCEPT !.current_state = GREETING,
              !.conversation_history = <<>>,
              !.pharmacy_data = NoPharmacy,
              !.current_info_field = 0,
              !.sent_emails = <<>>,
              !.scheduled_callbacks = <<>>]

\* a faulty variant of reset_conversation: the failure counter starts again
reset_conversation_clearing_failures(e) ==
    [e EXCEPT !.current_state = GREETING,
              !.conversation_history = <<>>,
              !.pharmacy_data = NoPharmacy,
              !.collected_info = EmptyDict,
              !.current_info_field = 0,
              !.ai_extraction_failures = 0,
              !.sent_emails = <<>>,
              !.scheduled_callbacks = <<>>]

\* reset_conversation, with FollowUpActions.clear_history
reset_conversation(e) ==
    [e EXCEPT !.current_state = GREETING,
              !.conversation_history = <<>>,
              !.pharmacy_data = NoPharmacy,
              !.collected_info = EmptyDict,
              !.current_info_field = 0,
              !.sent_emails = <<>>,
              !.scheduled_callbacks = <<>>]

---------------------------------------------------------------------------
(* The user messages of the model, each the list of its words.             *)

MsgEmpty == <<>>
MsgName == <<"Sunset", "Pharmacy">>
MsgVolume == <<"We", "process", "1500", "prescriptions">>
MsgEmail == <<"john@pharmacy.com">>
MsgSendEmail == <<"Please", "send", "me", "information", "via", "email">>
MsgCall == <<"Please", "call", "me", "tomorrow">>
MsgBye == <<"no", "thanks">>

\* short replies to the five questions of the collection
MsgLocation == <<"San", "Diego">>
MsgShortVolume == <<"1500">>
MsgZero == <<"0">>
MsgContact == <<"Sarah", "Johnson">>

Messages == {MsgEmpty, MsgName, MsgVolume, MsgEmail, MsgSendEmail, MsgCall, MsgBye}

\* what callers say after the collection: each keyword of the discussion, of
\* the offer, of the scheduling and of the closing
MsgYes == <<"yes">>
MsgInterested == <<"interested">>
MsgMore == <<"more">>
MsgDetails == <<"details">>
MsgConsultation == <<"consultation">>
MsgCallOrEmail == <<"call", "or", "email">>
MsgMorningMonday == <<"morning", "monday">>
MsgFridayNextWeek == <<"friday", "next", "week">>
MsgAfternoon == <<"afternoon">>
MsgNothing == <<"nothing">>
MsgGoodbye == <<"goodbye">>

FollowUpMessages ==
    {MsgName, MsgSendEmail, MsgCall, MsgBye, MsgYes, MsgInterested, MsgMore, MsgDetails,
     MsgConsultation, MsgCallOrEmail, MsgMorningMonday, MsgFridayNextWeek, MsgAfternoon,
     MsgNothing, MsgGoodbye}

\* the request process_message sends to the language model for message m, if any
llm_request_kind(e, m) ==
    CASE e.current_state = COLLECTING_INFO ->
            IF ai_tier_enabled(e) THEN "extraction" ELSE "none"
      [] e.current_state = DISCUSSING_SOLUTIONS ->
            IF ~ContainsAny(m, InterestKeywords) /\ e.ai_available THEN "generation" ELSE "none"
      [] e.current_state \in {OFFERING_FOLLOW_UP, SCHEDULING, CLOSING, ERROR} -> "none"
      [] OTHER -> IF e.ai_available THEN "generation" ELSE "none"

\* the environment of a specification: the callers' phone numbers, what the
\* lookup may do, the users' messages, what the language model may answer to
\* an extraction request for each field and to a generation request, and the
\* transcript length that bounds the run
Environment(phones, lookups, messages, extractions, generations, max_history) ==
    [phones |-> phones, lookups |-> lookups, messages |-> messages,
     extractions |-> extractions, generations |-> generations,
     max_history |-> max_history]

\* the outcomes of the request process_message sends for message m
Completions(env, e, m) ==
    CASE llm_request_kind(e, m) = "extraction" ->
            env.extractions[get_next_missing_field(e.collected_info)]
      [] llm_request_kind(e, m) = "generation" -> env.generations
      [] OTHER -> {NoCompletion}

\* every caller, every message, every outcome of the lookup and of the model
GeneralEnvironment ==
    Environment(PhoneNumbers, {"found", "not_found", "raises"}, Messages,
                [f \in FieldNames |-> ExtractionOutcomes(f)], GenerationOutcomes,
                MaxHistory)

\* the calls of new leads: the lookup finds no record; the messages are an empty
\* one, a sentence with a number and a bare email address; the language model
\* raises or answers with the value of the requested field
LeadEnvironment ==
    Environment({"555-999-9999"}, {"not_found"}, {MsgEmpty, MsgVolume, MsgEmail},
                [f \in FieldNames |->
                    { Completion("raises", "", EmptyDict),
                      Completion("object", "", [k \in {f} |-> GoodValue(f)]) }],
                { Completion("text", "", EmptyDict) },
                MaxLeadHistory)

---------------------------------------------------------------------------
(* The state machine.                                                      *)

\* the engine's fields after an operation that returned r
Becomes(r, op, lookup, completion) ==
    /\ ai_available' = r.e.ai_available
    /\ ai_extraction_failures' = r.e.ai_extraction_failures
    /\ current_state' = r.e.current_state
    /\ conversation_history' = r.e.conversation_history
    /\ pharmacy_data' = r.e.pharmacy_data
    /\ collected_info' = r.e.collected_info
    /\ current_info_field' = r.e.current_info_field
    /\ sent_emails' = r.e.sent_emails
    /\ scheduled_callbacks' = r.e.scheduled_callbacks
    /\ llm_requests' = r.e.llm_requests
    /\ last_op' = op
    /\ result' = r.reply
    /\ lookup_outcome' = lookup
    /\ llm_completion' = completion
    /\ reset_from' = CASE op = "reset_conversation" -> current_state
                        [] op = "process_message" -> "none"
                        [] OTHER -> reset_from
    /\ UNCHANGED <<api_key, lookup_vars, phone_vars, thread_vars, action_result>>

\* __init__: without a credential the engine is in fallback mode; with one,
\* ai_available tells whether the test request to the language model succeeded
InitEngine ==
    /\ api_key \in BOOLEAN
    /\ ai_available \in (IF api_key THEN BOOLEAN ELSE {FALSE})
    /\ ai_extraction_failures = 0
    /\ current_state = GREETING
    /\ conversation_history = <<>>
    /\ pharmacy_data = NoPharmacy
    /\ collected_info = EmptyDict
    /\ current_info_field = 0
    /\ sent_emails = <<>>
    /\ scheduled_callbacks = <<>>
    /\ last_op = "__init__"
    /\ result = NoReply
    /\ llm_requests = <<>>
    /\ lookup_outcome = "not_called"
    /\ llm_completion = NoCompletion
    /\ reset_from = "none"

\* the dictionary a call of the action log returns: "success" and the
\* identifier ("email_id", "callback_id"), with the method that returned it
ActionResult(op, success, id) == [op |-> op, success |-> success, id |-> id]
NoActionResult == ActionResult("none", FALSE, 0)

\* the threads that call start_call, each at pc
InitThreads(pc) ==
    /\ thread_pc = [t \in 1..NumThreads |-> pc]
    /\ thread_greeting = [t \in 1..NumThreads |-> NoReply]
    /\ thread_result = [t \in 1..NumThreads |-> NoReply]

\* no call of the directory client is in progress
InitLookup ==
    /\ lookup_pc = "idle"
    /\ lookup_phone = NoneVal
    /\ http_responses = <<>>
    /\ slept = <<>>
    /\ lookup_return = NoPharmacy

Init ==
    /\ InitEngine
    /\ InitLookup
    /\ phone_string = StrVal(<<>>)
    /\ normalized = <<>>
    /\ InitThreads("not_started")
    /\ action_result = NoActionResult

StartCall(env) ==
    /\ Len(conversation_history) + 2 <= env.max_history
    /\ \E phone_number \in env.phones :
           \E lookup \in {o \in LookupOutcomes(phone_number) : o.kind \in env.lookups} :
               Becomes(start_call(Engine, phone_number, lookup), "start_call",
                       lookup.kind, NoCompletion)

ProcessMessage(env) ==
    /\ Len(conversation_history) + 2 <= env.max_history
    /\ \E m \in env.messages :
           \E completion \in Completions(env, Engine, m) :
               Becomes(process_message(Engine, m, completion), "process_message",
                       "not_called", completion)

ResetConversation ==
    Becomes(Returns(reset_conversation(Engine), NoReply), "reset_conversation",
            "not_called", NoCompletion)

Next ==
    \/ StartCall(GeneralEnvironment)
    \/ ProcessMessage(GeneralEnvironment)
    \/ ResetConversation

Spec == Init /\ [][Next]_vars

NextLead ==
    \/ StartCall(LeadEnvironment)
    \/ ProcessMessage(LeadEnvironment)
    \/ ResetConversation

SpecLead == Init /\ [][NextLead]_vars

\* whole calls: a known caller and an unknown one, a model that reads all five
\* fields from one message or fails, and the messages that drive the follow-up
CallEnvironment ==
    Environment({"555-123-4567", "555-999-9999"}, {"found", "not_found", "raises"},
                {MsgEmail, MsgSendEmail, MsgCall},
                [f \in FieldNames |->
                    {Completion("raises", "", EmptyDict),
                     Completion("object", "", [k \in FieldNames |-> GoodValue(k)])}],
                {Completion("text", "", EmptyDict)},
                MaxCallHistory)

NextCall ==
    \/ StartCall(CallEnvironment)
    \/ ProcessMessage(CallEnvironment)
    \/ ResetConversation

SpecCall == Init /\ [][NextCall]_vars

\* the calls of new leads who answer in a few words, to an engine built
\* without a credential: the lookup finds no record, no request is sent to the
\* language model
ManualEnvironment ==
    Environment({"555-999-9999"}, {"not_found"},
                {MsgEmpty, MsgName, MsgLocation, MsgShortVolume, MsgZero, MsgContact, MsgEmail},
                [f \in FieldNames |-> { Completion("raises", "", EmptyDict) }],
                { Completion("text", "", EmptyDict) },
                MaxLeadHistory)

NextManual ==
    \/ StartCall(ManualEnvironment)
    \/ ProcessMessage(ManualEnvironment)
    \/ ResetConversation

InitManual == Init /\ ~api_key

SpecManual == InitManual /\ [][NextManual]_vars

\* the calls of new leads to an engine whose AI tier is on: the lookup finds no
\* record; the language model raises, answers nothing, answers without the
\* requested field or with null for it, answers with a value the check of the
\* volume rejects, or answers with the value of the requested field
CollectionEnvironment ==
    Environment({"555-999-9999"}, {"not_found"}, {MsgEmpty, MsgVolume, MsgEmail},
                [f \in FieldNames |->
                    { Completion("raises", "", EmptyDict),
                      Completion("empty", "", EmptyDict),
                      Completion("object", "", [k \in {f} |-> NoneVal]),
                      Completion("object", "", [k \in FieldNames \ {f} |-> GoodValue(k)]),
                      Completion("object", "", [k \in {f} |-> GoodValue(f)]) }
                    \cup (IF f = "rx_volume"
                          THEN { Completion("object", "", [k \in {f} |-> IntVal(-5)]),
                                 Completion("object", "", [k \in {f} |-> StrVal(<<"many">>)]) }
                          ELSE {})],
                { Completion("text", "", EmptyDict) },
                MaxLeadHistory)

NextCollection ==
    \/ StartCall(CollectionEnvironment)
    \/ ProcessMessage(CollectionEnvironment)
    \/ ResetConversation

InitCollection == Init /\ ai_available

SpecCollection == InitCollection /\ [][NextCollection]_vars

\* one call of a known customer, from the discussion of solutions to the
\* closing: the lookup finds the record, with an email address or without; the
\* language model answers a generation request in each of its ways
FollowUpEnvironment ==
    Environment({"555-123-4567", "555-777-8888"}, {"found"}, FollowUpMessages,
                [f \in FieldNames |-> { Completion("raises", "", EmptyDict) }],
                GenerationOutcomes,
                MaxFollowUpHistory)

\* start_call on a new engine
StartFirstCall(env) == last_op = "__init__" /\ StartCall(env)

\* process_message in the call that start_call opened
MessageInCall(env) == last_op # "__init__" /\ ProcessMessage(env)

NextFollowUp ==
    \/ StartFirstCall(FollowUpEnvironment)
    \/ MessageInCall(FollowUpEnvironment)

InitFollowUp == Init /\ api_key

SpecFollowUp == InitFollowUp /\ [][NextFollowUp]_vars

\* one call of any caller on a new engine: a known customer with an email
\* address or without, or a new lead; the lookup finds the record, misses or
\* raises; an extraction request raises or returns all five fields
OneCallEnvironment ==
    Environment({"555-123-4567", "555-777-8888", "555-999-9999"},
                {"found", "not_found", "raises"},
                {MsgEmail, MsgSendEmail, MsgCall, MsgBye},
                [f \in FieldNames |->
                    {Completion("raises", "", EmptyDict),
                     Completion("object", "", [k \in FieldNames |-> GoodValue(k)])}],
                {Completion("text", "", EmptyDict)},
                MaxOneCallHistory)

NextOneCall ==
    \/ StartFirstCall(OneCallEnvironment)
    \/ MessageInCall(OneCallEnvironment)

SpecOneCall == Init /\ [][NextOneCall]_vars

\* one call of a known customer that stays in the discussion of solutions: the
\* messages hold no keyword of interest, each is answered by the language
\* model, which returns a text or raises
GenerationEnvironment ==
    Environment({"555-123-4567"}, {"found"}, {MsgName, MsgBye},
                [f \in FieldNames |-> { Completion("raises", "", EmptyDict) }],
                { Completion("text", "", EmptyDict), Completion("raises", "", EmptyDict) },
                MaxGenerationHistory)

NextGeneration ==
    \/ StartFirstCall(GenerationEnvironment)
    \/ MessageInCall(GenerationEnvironment)

InitGeneration == Init /\ ai_available

SpecGeneration == InitGeneration /\ [][NextGeneration]_vars

---------------------------------------------------------------------------
(* The directory client as a state machine: one call of                    *)
(* get_pharmacy_by_phone at a time, one step for each pass of its loop.    *)

\* the phone numbers looked up: two spellings of a listed number, another
\* listed number, and a string without a digit
LookupPhones ==
    { StrVal(<<"5", "-", "1">>), StrVal(<<"(", "5", ")", "1">>),
      StrVal(<<"5", "2">>), StrVal(<<"a">>) }

\* get_pharmacy_by_phone(phone_number) is called
GetPharmacyByPhone ==
    /\ lookup_pc = "idle"
    /\ \E phone_number \in LookupPhones : lookup_phone' = phone_number
    /\ lookup_pc' = "running"
    /\ http_responses' = <<>>
    /\ slept' = <<>>
    /\ lookup_return' = NoPharmacy
    /\ UNCHANGED <<engine_vars, phone_vars, thread_vars, action_result>>

\* one pass of  for attempt in range(self.max_retries):  the request, then the
\* return of the try block or the except clause the exception reaches; after
\* the last pass the function returns None
Attempt ==
    /\ lookup_pc = "running"
    /\ Len(http_responses) < max_retries
    /\ \E response \in Responses :
           LET attempt == Len(http_responses)
               r == attempt_body(lookup_phone, response)
               retry == r.kind = "raises" /\ except_clause(r.exception) = "retry"
           IN  /\ http_responses' = Append(http_responses, response)
               /\ slept' = IF retry /\ attempt < max_retries - 1
                           THEN Append(slept, retry_delay * (attempt + 1))
                           ELSE slept
               /\ lookup_pc' = CASE r.kind = "returns" -> "returned"
                                 [] retry /\ attempt + 1 < max_retries -> "running"
                                 [] retry -> "returned"
                                 [] except_clause(r.exception) = "return None" -> "returned"
                                 [] OTHER -> "raised"
               /\ lookup_return' = IF r.kind = "returns" THEN r.data ELSE NoPharmacy
    /\ UNCHANGED <<engine_vars, lookup_phone, phone_vars, thread_vars, action_result>>

\* the caller has the value (or the exception), the client is free again
LookupOver ==
    /\ lookup_pc \in {"returned", "raised"}
    /\ lookup_pc' = "idle"
    /\ UNCHANGED <<engine_vars, lookup_phone, http_responses, slept, lookup_return,
                   phone_vars, thread_vars, action_result>>

NextLookup == GetPharmacyByPhone \/ Attempt \/ LookupOver

SpecLookup == Init /\ [][NextLookup]_vars

\* a call in progress goes on: its requests time out after 10 seconds and its
\* sleeps end
SpecLookupFair == SpecLookup /\ WF_vars(Attempt)

---------------------------------------------------------------------------
(* The phone normalisation on its own: _clean_phone_number applied to a    *)
(* string, then to its own result.                                         *)

\* every string of at most MaxPhoneLen characters
PhoneStrings ==
    { StrVal(text) : text \in UNION { [1..n -> PhoneChars] : n \in 0..MaxPhoneLen } }

InitPhone ==
    /\ InitEngine
    /\ InitLookup
    /\ phone_string \in PhoneStrings
    /\ normalized = <<>>
    /\ InitThreads("not_started")
    /\ action_result = NoActionResult

\* _clean_phone_number(phone_string)
CleanPhoneNumber ==
    /\ normalized = <<>>
    /\ normalized' = <<clean_phone_number(phone_string)>>
    /\ UNCHANGED <<engine_vars, lookup_vars, phone_string, thread_vars, action_result>>

\* _clean_phone_number(_clean_phone_number(phone_string))
CleanPhoneNumberAgain ==
    /\ Len(normalized) = 1
    /\ normalized' = Append(normalized, clean_phone_number(normalized[1]))
    /\ UNCHANGED <<engine_vars, lookup_vars, phone_string, thread_vars, action_result>>

NextPhone == CleanPhoneNumber \/ CleanPhoneNumberAgain

SpecPhone == InitPhone /\ [][NextPhone]_vars

---------------------------------------------------------------------------
(* Threads that call start_call on one engine at the same time, as in      *)
(* test_concurrent_api_calls: the lookup of each returns None.  A step is  *)
(* one read or write of a field of the engine, or one list.append; the     *)
(* interpreter runs each of them as a whole.                               *)

Threads == 1..NumThreads

\* the phone number every thread calls with
ThreadPhone == "555-123-4567"

\* a faulty variant of the test of line 86: the branches are exchanged
is_new_lead(data) == data = NoPharmacy

\* if self.pharmacy_data:
is_existing_customer(data) == data # NoPharmacy

InitConcurrent ==
    /\ InitEngine
    /\ InitLookup
    /\ phone_string = StrVal(<<>>)
    /\ normalized = <<>>
    /\ InitThreads("lookup")
    /\ action_result = NoActionResult

\* the next step of thread t in start_call:
\*   lookup           self.pharmacy_data = ...get_pharmacy_by_phone(phone_number), which returns None
\*   test             if self.pharmacy_data:
\*   existing         the greeting from self.pharmacy_data (AttributeError if it is None by now)
\*   set_discussing   self.current_state = DISCUSSING_SOLUTIONS
\*   set_collecting   greeting = format_greeting(); self.current_state = COLLECTING_INFO
\*   cursor           self.current_info_field = 0
\*   append_system    conversation_history.append(the call line)
\*   append_greeting  conversation_history.append(the greeting)
\*   return           return greeting
\*   except           self.current_state = ERROR
\*   return_error     return API_ERROR_MESSAGE
StartCallStep(t) ==
    LET at == thread_pc[t]
        goto(pc) == thread_pc' = [thread_pc EXCEPT ![t] = pc]
    IN  /\ at \notin {"not_started", "done"}
        /\ CASE at = "lookup" ->
                    /\ pharmacy_data' = NoPharmacy
                    /\ goto("test")
                    /\ UNCHANGED <<current_state, current_info_field, conversation_history,
                                   thread_greeting, thread_result>>
             [] at = "test" ->
                    /\ goto(IF is_existing_customer(pharmacy_data) THEN "existing" ELSE "set_collecting")
                    /\ UNCHANGED <<pharmacy_data, current_state, current_info_field,
                                   conversation_history, thread_greeting, thread_result>>
             [] at = "existing" ->
                    /\ IF pharmacy_data = NoPharmacy
                       THEN goto("except") /\ UNCHANGED thread_greeting
                       ELSE /\ goto("set_discussing")
                            /\ thread_greeting' =
                                   [thread_greeting EXCEPT ![t] = format_greeting_existing(pharmacy_data)]
                    /\ UNCHANGED <<pharmacy_data, current_state, current_info_field,
                                   conversation_history, thread_result>>
             [] at = "set_discussing" ->
                    /\ current_state' = DISCUSSING_SOLUTIONS
                    /\ goto("append_system")
                    /\ UNCHANGED <<pharmacy_data, current_info_field, conversation_history,
                                   thread_greeting, thread_result>>
             [] at = "set_collecting" ->
                    /\ thread_greeting' = [thread_greeting EXCEPT ![t] = format_greeting_new]
                    /\ current_state' = COLLECTING_INFO
                    /\ goto("cursor")
                    /\ UNCHANGED <<pharmacy_data, current_info_field, conversation_history,
                                   thread_result>>
             [] at = "cursor" ->
                    /\ current_info_field' = 0
                    /\ goto("append_system")
                    /\ UNCHANGED <<pharmacy_data, current_state, conversation_history,
                                   thread_greeting, thread_result>>
             [] at = "append_system" ->
                    /\ conversation_history' =
                           Append(conversation_history, Entry("system", <<ThreadPhone>>, NoReply))
                    /\ goto("append_greeting")
                    /\ UNCHANGED <<pharmacy_data, current_state, current_info_field,
                                   thread_greeting, thread_result>>
             [] at = "append_greeting" ->
                    /\ conversation_history' =
                           Append(conversation_history, Entry("assistant", <<>>, thread_greeting[t]))
                    /\ goto("return")
                    /\ UNCHANGED <<pharmacy_data, current_state, current_info_field,
                                   thread_greeting, thread_result>>
             [] at = "return" ->
                    /\ thread_result' = [thread_result EXCEPT ![t] = thread_greeting[t]]
                    /\ goto("done")
                    /\ UNCHANGED <<pharmacy_data, current_state, current_info_field,
                                   conversation_history, thread_greeting>>
             [] at = "except" ->
                    /\ current_state' = ERROR
                    /\ goto("return_error")
                    /\ UNCHANGED <<pharmacy_data, current_info_field, conversation_history,
                                   thread_greeting, thread_result>>
             [] at = "return_error" ->
                    /\ thread_result' = [thread_result EXCEPT ![t] = API_ERROR_MESSAGE]
                    /\ goto("done")
                    /\ UNCHANGED <<pharmacy_data, current_state, current_info_field,
                                   conversation_history, thread_greeting>>
        /\ UNCHANGED <<api_key, ai_available, ai_extraction_failures, collected_info,
                       sent_emails, scheduled_callbacks, last_op, result, llm_requests,
                       lookup_outcome, llm_completion, reset_from, lookup_vars, phone_vars,
                       action_result>>

NextConcurrent == \E t \in Threads : StartCallStep(t)

SpecConcurrent == InitConcurrent /\ [][NextConcurrent]_vars

\* the scheduler lets every started thread run
SpecConcurrentFair == SpecConcurrent /\ \A t \in Threads : WF_vars(StartCallStep(t))

---------------------------------------------------------------------------
(* The action log on its own (FollowUpActions, src/function_calls.py):     *)
(* calls of send_email, schedule_callback and clear_history in any order.  *)

\* the other fields of the model stay as they are
ActionLogOnly ==
    UNCHANGED <<api_key, ai_available, ai_extraction_failures, current_state,
                conversation_history, pharmacy_data, collected_info, current_info_field,
                last_op, result, llm_requests, lookup_outcome, llm_completion, reset_from,
                lookup_vars, phone_vars, thread_vars>>

\* send_email: the record is appended and its id returned as "email_id"
SendEmail ==
    /\ Len(sent_emails) < MaxLog
    /\ \E data \in Directory :
           LET emails == send_email(sent_emails, data)
           IN  /\ sent_emails' = emails
               /\ action_result' = ActionResult("send_email", TRUE, emails[Len(emails)].id)
    /\ UNCHANGED scheduled_callbacks
    /\ ActionLogOnly

\* schedule_callback: the record is appended and its id returned as "callback_id"
ScheduleCallback ==
    /\ Len(scheduled_callbacks) < MaxLog
    /\ \E data \in Directory :
           LET callbacks == schedule_callback(scheduled_callbacks, data, preferred_time(MsgCall))
           IN  /\ scheduled_callbacks' = callbacks
               /\ action_result' =
                      ActionResult("schedule_callback", TRUE, callbacks[Len(callbacks)].id)
    /\ UNCHANGED sent_emails
    /\ ActionLogOnly

\* clear_history
ClearHistory ==
    /\ sent_emails' = <<>>
    /\ scheduled_callbacks' = <<>>
    /\ action_result' = ActionResult("clear_history", TRUE, 0)
    /\ ActionLogOnly

NextActions == SendEmail \/ ScheduleCallback \/ ClearHistory

SpecActions == Init /\ [][NextActions]_vars

---------------------------------------------------------------------------
(* Properties.                                                             *)

\* the message of the step that led to this state: the last user entry of h
UserMessage(h) ==
    IF Len(h) >= 2 /\ h[Len(h) - 1].role = "user" THEN h[Len(h) - 1].text
    ELSE IF Len(h) >= 1 /\ h[Len(h)].role = "user" THEN h[Len(h)].text
    ELSE <<>>

\* C1: start_call sets the state from the outcome of the directory lookup and
\* from nothing else (whatever the engine's mode and earlier state): a record
\* found gives DISCUSSING_SOLUTIONS and the greeting with the record's name, no
\* match gives COLLECTING_INFO and the generic greeting, a lookup that raises
\* gives ERROR and the fixed apology.
C1_StartCallFollowsLookup ==
    last_op = "start_call" =>
        /\ lookup_outcome \in {"found", "not_found", "raises"}
        /\ lookup_outcome = "found" =>
               /\ current_state = DISCUSSING_SOLUTIONS
               /\ pharmacy_data \in Directory
               /\ result.kind = "EXISTING_CUSTOMER_GREETING"
               /\ result.name = pharmacy_data.name
        /\ lookup_outcome = "not_found" =>
               /\ current_state = COLLECTING_INFO
               /\ result.kind = "NEW_LEAD_GREETING"
        /\ lookup_outcome = "raises" =>
               /\ current_state = ERROR
               /\ result.kind = "API_ERROR_MESSAGE"

\* a fresh engine has answered a call whose lookup raised
C1_Witness ==
    /\ last_op = "start_call"
    /\ lookup_outcome = "raises"
    /\ current_state = ERROR
    /\ conversation_history = <<>>
    /\ DOMAIN collected_info = {}

\* C2: process_message always returns a non-empty string, for every message,
\* in every state and whatever the language model returns or raises.
C2_RepliesAreNonEmptyStrings ==
    last_op = "process_message" => IsNonEmptyString(result)

\* C3: while the state is COLLECTING_INFO, a process_message moves the state
\* to DISCUSSING_SOLUTIONS only if all five fields are then present and truthy
\* in collected_info, and leaves it COLLECTING_INFO in every other case.
C3_LeavesCollectionOnlyWhenComplete ==
    [][(last_op' = "process_message" /\ current_state = COLLECTING_INFO)
          => IF has_complete_info(collected_info')
             THEN current_state' \in {COLLECTING_INFO, DISCUSSING_SOLUTIONS}
             ELSE current_state' = COLLECTING_INFO]_vars

\* the extraction requests among the requests of a step
ExtractionRequests(requests) ==
    {i \in 1..Len(requests) : requests[i].kind = "extraction"}

\* C4: during information collection the cursor advances only on a message
\* from which a value was extracted (it moves by one, past a field that is then
\* stored); a message from which nothing is extracted leaves the cursor where
\* it is, and its reply re-asks the field the reply before it asked.
C4_CursorAndRepeatedQuestion ==
    [][(/\ last_op' = "process_message"
        /\ current_state = COLLECTING_INFO
        /\ current_state' = COLLECTING_INFO)
          => /\ current_info_field' # current_info_field
                 => /\ current_info_field' = current_info_field + 1
                    /\ info_collection_fields[current_info_field'] \in DOMAIN collected_info'
             /\ (/\ collected_info' = collected_info
                 /\ current_info_field' = current_info_field
                 /\ result.kind = "collecting_info_response")
                 => result' = result]_vars

\* C5: once all five fields of collected_info are populated, no message puts
\* the state back to COLLECTING_INFO (reset_conversation empties collected_info).
C5_NoReturnToCollection ==
    [][(/\ last_op' = "process_message"
        /\ has_complete_info(collected_info)
        /\ current_state # COLLECTING_INFO)
          => current_state' # COLLECTING_INFO]_vars

\* C6: the failure counter never goes down, an extraction request that raises
\* adds one to it, and once it has reached 3 no process_message sends an
\* extraction request to the language model any more.
C6_ManualOnlyAfterThreeFailures ==
    [][/\ ai_extraction_failures' >= ai_extraction_failures
       /\ (/\ last_op' = "process_message"
           /\ ExtractionRequests(llm_requests') # {}
           /\ llm_completion'.kind = "raises")
             => ai_extraction_failures' = ai_extraction_failures + 1
       /\ (/\ last_op' = "process_message"
           /\ ai_extraction_failures >= AI_FAILURE_LIMIT)
             => ExtractionRequests(llm_requests') = {}]_vars

\* the fourth message of a call is collected by the manual tier alone, the AI
\* mode still on, after three failed extractions
C6_Witness ==
    /\ last_op = "process_message"
    /\ current_state = COLLECTING_INFO
    /\ ai_available
    /\ ai_extraction_failures = AI_FAILURE_LIMIT
    /\ Len(conversation_history) = 10
    /\ llm_requests = <<>>

\* the place of a state in the order of a call
StateOrder(state) ==
    CASE state = GREETING -> 0
      [] state = COLLECTING_INFO -> 1
      [] state = DISCUSSING_SOLUTIONS -> 2
      [] state = OFFERING_FOLLOW_UP -> 3
      [] state = SCHEDULING -> 4
      [] state = CLOSING -> 5
      [] OTHER -> -1

\* C7: the state is always one value of ConversationState; within a call, which
\* is a start_call in state GREETING and the process_message calls after it, no
\* step moves the state to an earlier state of the order GREETING,
\* COLLECTING_INFO, DISCUSSING_SOLUTIONS, OFFERING_FOLLOW_UP, SCHEDULING,
\* CLOSING, except the recovery step from ERROR to COLLECTING_INFO.
C7_StatesMoveForward ==
    [][/\ current_state' \in ConversationState
       /\ last_op' = "process_message"
             => \/ current_state = ERROR /\ current_state' = COLLECTING_INFO
                \/ /\ current_state # ERROR
                   /\ current_state' # ERROR
                   /\ StateOrder(current_state') >= StateOrder(current_state)
       /\ (last_op' = "start_call" /\ current_state = GREETING)
             => current_state' \in {COLLECTING_INFO, DISCUSSING_SOLUTIONS, ERROR}]_vars

\* a new lead's call has gone through every state of the order up to CLOSING
C7_Witness ==
    /\ last_op = "process_message"
    /\ current_state = CLOSING
    /\ has_complete_info(collected_info)
    /\ Len(scheduled_callbacks) = 1
    /\ Len(conversation_history) = 10

\* C8: a non-null caller record never coexists with a non-empty collected_info.
C8_CustomerOrLead ==
    ~(pharmacy_data # NoPharmacy /\ DOMAIN collected_info # {})

\* C9: in state OFFERING_FOLLOW_UP with an email address known, process_message
\* of a message containing "email" appends exactly one record to the email log,
\* appends nothing to the callback log and sets the state to CLOSING.
C9_EmailRequestSendsOneEmail ==
    [][(/\ last_op' = "process_message"
        /\ current_state = OFFERING_FOLLOW_UP
        /\ \/ Truthy(DictGet(collected_info, "email", NoneVal))
           \/ pharmacy_data # NoPharmacy /\ Truthy(pharmacy_data.email)
        /\ Contains(UserMessage(conversation_history'), "email"))
          => /\ Len(sent_emails') = Len(sent_emails) + 1
             /\ SubSeq(sent_emails', 1, Len(sent_emails)) = sent_emails
             /\ sent_emails'[Len(sent_emails')].status = "sent"
             /\ scheduled_callbacks' = scheduled_callbacks
             /\ current_state' = CLOSING]_vars

\* a new lead whose email address was collected has been sent the email
C9_Witness ==
    /\ last_op = "process_message"
    /\ current_state = CLOSING
    /\ pharmacy_data = NoPharmacy
    /\ Contains(UserMessage(conversation_history), "email")
    /\ Len(sent_emails) = 1
    /\ "email" \in DOMAIN collected_info
    /\ sent_emails[1].to_email = collected_info["email"]
    /\ scheduled_callbacks = <<>>

\* C10: in state ERROR the next process_message sets the state to
\* COLLECTING_INFO, switches the AI mode off and returns the recovery reply;
\* the state becomes or stays ERROR only by a start_call whose lookup raises.
C10_SingleShotRecovery ==
    [][/\ (last_op' = "process_message" /\ current_state = ERROR)
             => /\ current_state' = COLLECTING_INFO
                /\ ai_available' = FALSE
                /\ result'.kind = "back_online"
       /\ current_state' = ERROR
             => last_op' = "start_call" /\ lookup_outcome' = "raises"]_vars

\* an engine whose AI tier had been in use has recovered into manual mode
C10_Witness ==
    /\ last_op = "process_message"
    /\ result.kind = "back_online"
    /\ current_state = COLLECTING_INFO
    /\ ~ai_available
    /\ ai_extraction_failures >= 1

\* the response of the last attempt of a lookup
LastResponse == http_responses[Len(http_responses)]

\* the scan cannot read a record that is no object or whose phone is no string
Unreadable(record) ==
    ~record.is_dict \/ DictGet(record.fields, "phone", StrVal(<<>>)).kind # "str"

\* a readable record whose phone, cleaned, is the cleaned phone looked up
MatchesPhone(record, phone_number) ==
    /\ ~Unreadable(record)
    /\ clean_phone_number(DictGet(record.fields, "phone", StrVal(<<>>)))
           = clean_phone_number(phone_number)

\* the parts of C11 that do not depend on what a malformed record is: at most
\* 3 requests, no exception, None when every attempt failed, when the body was
\* no JSON, when the payload is no list and when no record matches
LookupNeverRaises ==
    /\ Len(http_responses) <= max_retries
    /\ lookup_pc # "raised"
    /\ lookup_pc = "running" =>
           \A i \in 1..Len(http_responses) :
               http_responses[i].kind \in
                   {"Timeout", "ConnectionError", "HTTPError", "RequestsJSONDecodeError"}
    /\ (lookup_pc = "returned" /\ LastResponse.kind # "payload") =>
           /\ lookup_return = NoPharmacy
           /\ LastResponse.kind # "ValueError" => Len(http_responses) = max_retries
    /\ (lookup_pc = "returned" /\ LastResponse.kind = "payload") =>
           LET records == LastResponse.payload.records
           IN  /\ LastResponse.payload.kind # "list" => lookup_return = NoPharmacy
               /\ (\A i \in 1..Len(records) : ~MatchesPhone(records[i], lookup_phone))
                      => lookup_return = NoPharmacy

DigitPositions(text) == { i \in 1..Len(text) : IsDigitChar(text[i]) }

NthDigitPosition(text, k) ==
    CHOOSE i \in DigitPositions(text) :
        Cardinality({ j \in DigitPositions(text) : j <= i }) = k

C12_NormalizationKeepsDigitsAndIsIdempotent ==
    /\ Len(normalized) >= 1 =>
           LET out == normalized[1].text
           IN  /\ normalized[1].kind = "str"
               /\ Len(out) = Cardinality(DigitPositions(phone_string.text))
               /\ \A k \in 1..Len(out) :
                      out[k] = phone_string.text[NthDigitPosition(phone_string.text, k)]
    /\ Len(normalized) = 2 => normalized[2] = normalized[1]

\* a string with digits between other characters has gone through twice
C12_Witness ==
    /\ phone_string = StrVal(<<"(", "5", "1">>)
    /\ normalized = <<StrVal(<<"5", "1">>), StrVal(<<"5", "1">>)>>

\* C13: after reset_conversation, whatever the state it was called in, the
\* engine is in GREETING with an empty transcript, no caller record, no
\* collected field, the field cursor at 0 and both action logs empty; and a
\* start_call that comes right after a reset made in ERROR and whose lookup
\* finds no record leaves what it leaves on a new engine: the generic
\* greeting, COLLECTING_INFO, a transcript of the call line and the greeting.
PerCallStateIsInitial ==
    /\ current_state = GREETING
    /\ conversation_history = <<>>
    /\ pharmacy_data = NoPharmacy
    /\ collected_info = EmptyDict
    /\ current_info_field = 0
    /\ sent_emails = <<>>
    /\ scheduled_callbacks = <<>>

FreshCallOfNewLead ==
    /\ result = format_greeting_new
    /\ IsNonEmptyString(result)
    /\ current_state = COLLECTING_INFO
    /\ Len(conversation_history) = 2
    /\ conversation_history[1].role = "system"
    /\ conversation_history[2] = Entry("assistant", <<>>, format_greeting_new)
    /\ pharmacy_data = NoPharmacy
    /\ collected_info = EmptyDict
    /\ current_info_field = 0
    /\ sent_emails = <<>>
    /\ scheduled_callbacks = <<>>

C13_ResetRestoresPerCallState ==
    /\ [](last_op = "reset_conversation" => PerCallStateIsInitial)
    /\ [][(/\ last_op = "reset_conversation"
           /\ reset_from = ERROR
           /\ last_op' = "start_call"
           /\ lookup_outcome' = "not_found") => FreshCallOfNewLead']_vars

\* the engine was reset in ERROR after an extraction failure had been counted,
\* and the call that followed found no record
C13_Witness ==
    /\ last_op = "start_call"
    /\ lookup_outcome = "not_found"
    /\ reset_from = ERROR
    /\ Len(conversation_history) = 2
    /\ current_state = COLLECTING_INFO
    /\ ai_extraction_failures >= 1

\* C14: in COLLECTING_INFO with the AI tier enabled, a message whose extraction
\* gives a valid value for each of the five fields (a non-empty text, and a
\* volume that passes the engine's check: a positive number or a digit string)
\* leaves those five values in collected_info, the state DISCUSSING_SOLUTIONS
\* and, as reply, the benefits message of the volume's tier.
ValidExtraction(object) ==
    /\ DOMAIN object = FieldNames
    /\ \A f \in FieldNames \ {"rx_volume"} :
           object[f].kind = "str" /\ object[f].text # <<>>
    /\ ~invalid_rx_volume(coerce_rx_volume(object["rx_volume"]))

C14_CompleteExtractionOpensDiscussion ==
    [][(/\ current_state = COLLECTING_INFO
        /\ ai_tier_enabled(Engine)
        /\ last_op' = "process_message"
        /\ parse_extraction(llm_completion') = llm_completion'.object
        /\ ValidExtraction(llm_completion'.object))
       => (/\ current_state' = DISCUSSING_SOLUTIONS
           /\ has_complete_info(collected_info')
           /\ \A f \in FieldNames \ {"rx_volume"} :
                  collected_info'[f] = llm_completion'.object[f]
           /\ collected_info'["rx_volume"] = coerce_rx_volume(llm_completion'.object["rx_volume"])
           /\ result' = get_solution_benefits(collected_info'["rx_volume"]))]_vars

\* C15: when the extraction of one message has failed (no accepted value for
\* the requested field) and fewer than 3 failures are counted, the next
\* message is still given to the language model, and if its extraction gives a
\* valid value for each of the five fields the state becomes
\* DISCUSSING_SOLUTIONS and the reply is the benefits message of the volume's tier.
ExtractionRejected(completion, field) ==
    LET info == parse_extraction(completion)
    IN  ~(/\ field \in DOMAIN info
          /\ Truthy(info[field])
          /\ field = "rx_volume" => ~invalid_rx_volume(coerce_rx_volume(info[field])))

ExtractionJustFailed ==
    /\ last_op = "process_message"
    /\ current_state = COLLECTING_INFO
    /\ Len(llm_requests) = 1
    /\ llm_requests[1].kind = "extraction"
    /\ ExtractionRejected(llm_completion, llm_requests[1].field)

C15_FailureDoesNotDisableNextExtraction ==
    [][(/\ ExtractionJustFailed
        /\ ai_available
        /\ ai_extraction_failures < AI_FAILURE_LIMIT
        /\ last_op' = "process_message")
       => (/\ Len(llm_requests') = 1
           /\ llm_requests'[1].kind = "extraction"
           /\ (/\ parse_extraction(llm_completion') = llm_completion'.object
               /\ ValidExtraction(llm_completion'.object))
              => (/\ current_state' = DISCUSSING_SOLUTIONS
                  /\ has_complete_info(collected_info')
                  /\ result' = get_solution_benefits(collected_info'["rx_volume"])))]_vars

\* C16: when several threads call start_call on one engine at the same time
\* and every lookup returns None, then whatever the order of their steps no
\* call raises, every call returns, and what it returns is the generic
\* greeting, a non-empty string.
C16_ConcurrentStartCallsReturnGreeting ==
    /\ [](\A t \in Threads :
            /\ thread_pc[t] \notin {"existing", "set_discussing", "except", "return_error"}
            /\ thread_pc[t] = "done" =>
                   /\ thread_result[t] = format_greeting_new
                   /\ IsNonEmptyString(thread_result[t]))
    /\ <>(\A t \in Threads : thread_pc[t] = "done")

\* all calls have returned, and their entries in the transcript are interleaved:
\* two call lines, then a greeting
C16_Witness ==
    /\ \A t \in Threads : thread_pc[t] = "done" /\ thread_result[t] = format_greeting_new
    /\ Len(conversation_history) = 2 * NumThreads
    /\ conversation_history[1].role = "system"
    /\ conversation_history[2].role = "system"
    /\ conversation_history[3].role = "assistant"

\* C17: a call of send_email or schedule_callback returns success, appends one
\* record to its own log and leaves the other log as it is, and the identifier
\* it returns is the new length of its log; so the identifiers of each log
\* are 1, 2, 3, ... in the order of the records.
IsPrefix(old, new) == Len(old) <= Len(new) /\ \A i \in 1..Len(old) : new[i] = old[i]

C17_ActionsSucceedWithIncrementingIds ==
    /\ [](/\ \A i \in 1..Len(sent_emails) : sent_emails[i].id = i
          /\ \A i \in 1..Len(scheduled_callbacks) : scheduled_callbacks[i].id = i)
    /\ [][(action_result'.op = "send_email") =>
              (/\ action_result'.success
               /\ Len(sent_emails') = Len(sent_emails) + 1
               /\ IsPrefix(sent_emails, sent_emails')
               /\ scheduled_callbacks' = scheduled_callbacks
               /\ action_result'.id = Len(sent_emails'))]_vars
    /\ [][(action_result'.op = "schedule_callback") =>
              (/\ action_result'.success
               /\ Len(scheduled_callbacks') = Len(scheduled_callbacks) + 1
               /\ IsPrefix(scheduled_callbacks, scheduled_callbacks')
               /\ sent_emails' = sent_emails
               /\ action_result'.id = Len(scheduled_callbacks'))]_vars

\* the second callback has been scheduled while three emails are in their log
C17_Witness ==
    /\ action_result = ActionResult("schedule_callback", TRUE, 2)
    /\ Len(scheduled_callbacks) = 2
    /\ Len(sent_emails) = 3
    /\ sent_emails[3].id = 3

\* C18: an engine built without a credential has ai_available false in every
\* state, whatever is called on it, and none of its operations sends a request
\* to the language model.
C18_NoCredentialMeansManualForever ==
    ~api_key => (~ai_available /\ llm_requests = <<>>)

\* without a credential the engine has recovered from a failed call
C18_Witness ==
    /\ ~api_key
    /\ last_op = "process_message"
    /\ result = BACK_ONLINE
    /\ current_state = COLLECTING_INFO

\* C19: when the request of _generate_ai_response raises, the caller gets the
\* fixed apology, not an exception, and the engine is as before the message
\* but for the two transcript entries of process_message.
C19_GenerationFailureGivesApology ==
    [][(/\ last_op' = "process_message"
        /\ Len(llm_requests') = 1
        /\ llm_requests'[1].kind = "generation"
        /\ llm_completion'.kind = "raises")
       => (/\ result' = AI_APOLOGY
           /\ IsNonEmptyString(result')
           /\ conversation_history' =
                  conversation_history
                  \o <<Entry("user", llm_requests'[1].user_message, NoReply),
                       Entry("assistant", <<>>, AI_APOLOGY)>>
           /\ UNCHANGED <<current_state, ai_available, ai_extraction_failures, pharmacy_data,
                          collected_info, current_info_field, sent_emails,
                          scheduled_callbacks>>)]_vars

\* a generation request has raised during the discussion of solutions
C19_Witness ==
    /\ last_op = "process_message"
    /\ llm_completion.kind = "raises"
    /\ Len(llm_requests) = 1
    /\ llm_requests[1].kind = "generation"
    /\ result = AI_APOLOGY
    /\ current_state = DISCUSSING_SOLUTIONS

\* C20: in manual mode, a reply of at most 3 words that the rule of the field
\* asked for accepts (any such reply for name, location and contact, one with
\* digits for the volume, one with an address for the email) fills that field
\* and moves the cursor to the next one; so from COLLECTING_INFO with nothing
\* collected, five such replies in the order of the fields fill the five
\* fields, the state being COLLECTING_INFO after each of the first four and
\* DISCUSSING_SOLUTIONS, with the benefits message, after the fifth.
ShortReplyFor(field, m) ==
    /\ Len(m) <= 3
    /\ field = "rx_volume" => \E i \in 1..Len(m) : FirstDigitRun(m[i]) >= 0
    /\ field = "email" => \E i \in 1..Len(m) : EmailIn(m[i]) # <<>>

FirstFields(k) == { info_collection_fields[i] : i \in 1..k }

C20_FiveShortRepliesCompleteCollection ==
    /\ [](collected_info = EmptyDict => current_info_field = 0)
    /\ [][\A k \in 0..4 :
            (/\ current_state = COLLECTING_INFO
             /\ ~ai_tier_enabled(Engine)
             /\ DOMAIN collected_info = FirstFields(k)
             /\ current_info_field = k
             /\ last_op' = "process_message"
             /\ ShortReplyFor(info_collection_fields[k + 1], UserMessage(conversation_history')))
            => (/\ DOMAIN collected_info' = FirstFields(k + 1)
                /\ \A f \in FirstFields(k) : collected_info'[f] = collected_info[f]
                /\ current_info_field' = k + 1
                /\ k < 4 => current_state' = COLLECTING_INFO
                /\ k = 4 => (/\ current_state' = DISCUSSING_SOLUTIONS
                             /\ result'.kind = "solution_benefits"))]_vars

\* a caller has answered the five questions in a few words each, without the
\* language model
C20_Witness ==
    /\ ~ai_available
    /\ current_state = DISCUSSING_SOLUTIONS
    /\ Len(conversation_history) = 12
    /\ \A i \in 1..5 : conversation_history[2 * i + 1].role = "user"
    /\ conversation_history[3].text = MsgName
    /\ conversation_history[5].text = MsgLocation
    /\ conversation_history[7].text = MsgShortVolume
    /\ conversation_history[9].text = MsgContact
    /\ conversation_history[11].text = MsgEmail
    /\ has_complete_info(collected_info)
    /\ result = get_solution_benefits(IntVal(1500))

\* the field the cursor of the manual tier selects, "" when it is past the last one
CursorField ==
    IF current_info_field < Len(info_collection_fields)
    THEN info_collection_fields[current_info_field + 1]
    ELSE ""

\* C21: in every reachable COLLECTING_INFO state the field selected by the
\* cursor of the manual tier is the first field missing from collected_info,
\* the field the AI tier asks the language model for.
C21_CursorIsFirstMissingField ==
    current_state = COLLECTING_INFO => CursorField = get_next_missing_field(collected_info)

\* collected_info[field] is not after the step what it was before it
FieldChanges(field) ==
    \/ (field \in DOMAIN collected_info) # (field \in DOMAIN collected_info')
    \/ /\ field \in DOMAIN collected_info
       /\ field \in DOMAIN collected_info'
       /\ collected_info'[field] # collected_info[field]

\* C22: during information collection a process_message changes no field of
\* collected_info but the one that was the first missing field before the
\* message; so a field that holds a truthy value is never overwritten.
C22_OnlyFirstMissingFieldChanges ==
    [][(last_op' = "process_message" /\ current_state = COLLECTING_INFO)
          => \A f \in FieldNames :
                 FieldChanges(f) => f = get_next_missing_field(collected_info)]_vars

\* the manual tier wrote collected_info[field] in the step: its cursor moved
\* past the field, and the value is the one its rule takes from message m
WrittenByManualTier(field, m) ==
    \E i \in (current_info_field + 1)..current_info_field' :
        /\ i <= Len(info_collection_fields)
        /\ info_collection_fields[i] = field
        /\ field \in DOMAIN collected_info'
        /\ collected_info'[field] = manual_extraction(field, m).value

\* the step wrote collected_info[field] from the answer of the language model
WrittenByAITier(field, m) == FieldChanges(field) /\ ~WrittenByManualTier(field, m)

PositiveNumber(v) == v.kind = "int" /\ v.num > 0

\* the AI tier writes only when the answer holds a non-null value for the
\* requested field that passes the check of the field
C23_WritesOnlyOnCheckedAnswer ==
    [][(/\ last_op' = "process_message"
        /\ current_state = COLLECTING_INFO
        /\ Len(llm_requests') = 1
        /\ llm_requests'[1].kind = "extraction")
          => LET field == llm_requests'[1].field
                 info == parse_extraction(llm_completion')
             IN  \A f \in FieldNames :
                     WrittenByAITier(f, llm_requests'[1].user_message)
                       => /\ field \in DOMAIN info
                          /\ info[field].kind # "none"
                          /\ field = "rx_volume"
                               => PositiveNumber(coerce_rx_volume(info[field]))]_vars

\* C23: a value is written into collected_info by the AI tier only when the
\* parsed answer holds a non-null value for the requested field that passes
\* the check of the field; and every rx_volume the AI tier stores is a
\* positive number.
C23_AITierStoresOnlyCheckedValues ==
    /\ C23_WritesOnlyOnCheckedAnswer
    /\ [][(/\ last_op' = "process_message"
           /\ current_state = COLLECTING_INFO
           /\ Len(llm_requests') = 1
           /\ llm_requests'[1].kind = "extraction"
           /\ WrittenByAITier("rx_volume", llm_requests'[1].user_message))
             => PositiveNumber(collected_info'["rx_volume"])]_vars

\* C24: an AI extraction that fails (the request raises, the answer is empty,
\* lacks the requested field or holds null for it) or that the check rejects
\* adds exactly one to the failure counter and writes nothing of the answer
\* into collected_info, and the same message is handled by the manual tier in
\* the same process_message: the rule of the field at the cursor stores its
\* value and moves the cursor on, or finds nothing and the field is asked again.
C24_FailedExtractionFallsBackToManualTier ==
    [][(/\ last_op' = "process_message"
        /\ current_state = COLLECTING_INFO
        /\ Len(llm_requests') = 1
        /\ llm_requests'[1].kind = "extraction"
        /\ ExtractionRejected(llm_completion', llm_requests'[1].field))
          => LET m == llm_requests'[1].user_message
             IN  /\ ai_extraction_failures' = ai_extraction_failures + 1
                 /\ \A f \in FieldNames : FieldChanges(f) => WrittenByManualTier(f, m)
                 /\ IF current_info_field >= Len(info_collection_fields)
                    THEN current_state' = DISCUSSING_SOLUTIONS
                    ELSE IF manual_extraction(CursorField, m).found
                         THEN /\ current_info_field' > current_info_field
                              /\ CursorField \in DOMAIN collected_info'
                              /\ collected_info'[CursorField] = manual_extraction(CursorField, m).value
                         ELSE /\ current_info_field' = current_info_field
                              /\ collected_info' = collected_info
                              /\ result' = get_collecting_info_response(CursorField)]_vars

\* the language model gave a negative volume for the third question: the
\* third failure is counted, and the manual tier took the volume from the message
C24_Witness ==
    /\ last_op = "process_message"
    /\ llm_completion = Completion("object", "", [k \in {"rx_volume"} |-> IntVal(-5)])
    /\ ai_extraction_failures = AI_FAILURE_LIMIT
    /\ current_state = COLLECTING_INFO
    /\ current_info_field = 3
    /\ "rx_volume" \in DOMAIN collected_info
    /\ collected_info["rx_volume"] = IntVal(1500)

\* an email address is known: collected from the caller, or held by the caller record
EmailKnown ==
    \/ Truthy(DictGet(collected_info, "email", NoneVal))
    \/ pharmacy_data # NoPharmacy /\ Truthy(pharmacy_data.email)

\* C25 as stated: in OFFERING_FOLLOW_UP every message that contains "email"
\* appends one record to the email log and moves the state to CLOSING.
C25_EveryEmailRequestSends ==
    [][(/\ last_op' = "process_message"
        /\ current_state = OFFERING_FOLLOW_UP
        /\ Contains(UserMessage(conversation_history'), "email"))
          => /\ Len(sent_emails') = Len(sent_emails) + 1
             /\ current_state' = CLOSING]_vars

\* C25, amended: in OFFERING_FOLLOW_UP a message that contains "email" appends
\* one record to the email log, addressed to the known address, and moves the
\* state to CLOSING when an email address is known; when none is known it
\* records nothing, leaves the state OFFERING_FOLLOW_UP and the reply asks for
\* the address.
C25_EmailRequestSendsWhenAddressKnown ==
    [][(/\ last_op' = "process_message"
        /\ current_state = OFFERING_FOLLOW_UP
        /\ Contains(UserMessage(conversation_history'), "email"))
          => IF EmailKnown
             THEN /\ Len(sent_emails') = Len(sent_emails) + 1
                  /\ IsPrefix(sent_emails, sent_emails')
                  /\ sent_emails'[Len(sent_emails')].to_email =
                         (IF Truthy(DictGet(collected_info, "email", NoneVal))
                          THEN collected_info["email"] ELSE pharmacy_data.email)
                  /\ scheduled_callbacks' = scheduled_callbacks
                  /\ current_state' = CLOSING
                  /\ result'.kind = "SUCCESSFUL_CLOSING"
             ELSE /\ sent_emails' = sent_emails
                  /\ scheduled_callbacks' = scheduled_callbacks
                  /\ current_state' = OFFERING_FOLLOW_UP
                  /\ result' = ASK_EMAIL_ADDRESS]_vars

\* a known customer has asked for the email and it went to the address of the
\* caller record
C25_Witness ==
    /\ last_op = "process_message"
    /\ current_state = CLOSING
    /\ pharmacy_data \in Directory
    /\ DOMAIN collected_info = {}
    /\ Contains(UserMessage(conversation_history), "email")
    /\ Len(sent_emails) = 1
    /\ sent_emails[1].to_email = pharmacy_data.email
    /\ result.kind = "SUCCESSFUL_CLOSING"

\* C26: in OFFERING_FOLLOW_UP a message that contains "call" or "consultation"
\* and not "email" moves the state to SCHEDULING, offers the callback and
\* records no action; a message that contains none of the three leaves the
\* state, collected_info and both logs as they are and the reply repeats the
\* offer.
C26_CallRequestOpensSchedulingElseOfferRepeated ==
    [][(last_op' = "process_message" /\ current_state = OFFERING_FOLLOW_UP)
          => LET m == UserMessage(conversation_history')
             IN  /\ ((Contains(m, "call") \/ Contains(m, "consultation")) /\ ~Contains(m, "email"))
                       => /\ current_state' = SCHEDULING
                          /\ result' = format_callback_offer
                          /\ sent_emails' = sent_emails
                          /\ scheduled_callbacks' = scheduled_callbacks
                 /\ ~ContainsAny(m, {"email", "call", "consultation"})
                       => /\ current_state' = OFFERING_FOLLOW_UP
                          /\ result' = REPEAT_OFFER
                          /\ collected_info' = collected_info
                          /\ sent_emails' = sent_emails
                          /\ scheduled_callbacks' = scheduled_callbacks]_vars

\* the offer was repeated once, then the caller asked for a consultation
C26_Witness ==
    /\ last_op = "process_message"
    /\ current_state = SCHEDULING
    /\ result = format_callback_offer
    /\ Len(conversation_history) = 8
    /\ conversation_history[5].text = MsgGoodbye
    /\ conversation_history[6].reply = REPEAT_OFFER
    /\ conversation_history[7].text = MsgConsultation
    /\ sent_emails = <<>>
    /\ scheduled_callbacks = <<>>

\* the fixed list of C27, and the places in it of the keywords a message contains
ListedTimeKeywords ==
    <<"tomorrow", "next week", "monday", "tuesday", "wednesday", "thursday", "friday",
      "morning", "afternoon", "evening">>

TimeKeywordsFound(m) ==
    { i \in 1..Len(ListedTimeKeywords) : ContainsTime(m, ListedTimeKeywords[i]) }

\* C27: in SCHEDULING every message moves the state to CLOSING, appends exactly
\* one record to the callback log and none to the email log; the preferred
\* time recorded is "<keyword> at 2 PM" for the first keyword of the list that
\* the message contains, and "tomorrow at 2 PM" when it contains none.
C27_SchedulingRecordsOneCallback ==
    [][(last_op' = "process_message" /\ current_state = SCHEDULING)
          => LET m == UserMessage(conversation_history')
                 found == TimeKeywordsFound(m)
                 record == scheduled_callbacks'[Len(scheduled_callbacks')]
             IN  /\ current_state' = CLOSING
                 /\ Len(scheduled_callbacks') = Len(scheduled_callbacks) + 1
                 /\ IsPrefix(scheduled_callbacks, scheduled_callbacks')
                 /\ sent_emails' = sent_emails
                 /\ record.status = "scheduled"
                 /\ found = {} => record.preferred_time = <<"tomorrow", "at 2 PM">>
                 /\ \A i \in found :
                        (\A j \in found : i <= j)
                          => record.preferred_time = <<ListedTimeKeywords[i], "at 2 PM">>]_vars

\* a caller asked for the morning on monday: the callback is recorded for
\* monday, which comes before morning in the list
C27_Witness ==
    /\ last_op = "process_message"
    /\ current_state = CLOSING
    /\ UserMessage(conversation_history) = MsgMorningMonday
    /\ sent_emails = <<>>
    /\ Len(scheduled_callbacks) = 1
    /\ scheduled_callbacks[1].preferred_time = <<"monday", "at 2 PM">>
    /\ scheduled_callbacks[1].phone_number = pharmacy_data.phone

\* C28: in DISCUSSING_SOLUTIONS a message that contains one of yes, interested,
\* more, information, details moves the state to OFFERING_FOLLOW_UP and the
\* reply is the follow-up options, no request being sent; any other message
\* leaves the state DISCUSSING_SOLUTIONS, and its reply is, when ai_available,
\* the outcome of one generation request for that message (the content the
\* language model returned, the apology of C19 when the request raised) and,
\* when not, the fixed text.
C28_InterestOpensOfferElseDiscussionGoesOn ==
    [][(last_op' = "process_message" /\ current_state = DISCUSSING_SOLUTIONS)
          => LET m == UserMessage(conversation_history')
             IN  IF ContainsAny(m, {"yes", "interested", "more", "information", "details"})
                 THEN /\ current_state' = OFFERING_FOLLOW_UP
                      /\ result' = get_follow_up_options
                      /\ llm_requests' = <<>>
                 ELSE /\ current_state' = DISCUSSING_SOLUTIONS
                      /\ IF ai_available
                         THEN /\ Len(llm_requests') = 1
                              /\ llm_requests'[1].kind = "generation"
                              /\ llm_requests'[1].user_message = m
                              /\ result' = (IF llm_completion'.kind = "raises"
                                            THEN AI_APOLOGY
                                            ELSE LLMReply(llm_completion'.kind))
                         ELSE /\ llm_requests' = <<>>
                              /\ result' = HAPPY_TO_HELP]_vars

\* the language model answered a message without keyword, then the caller
\* asked for details
C28_Witness ==
    /\ last_op = "process_message"
    /\ current_state = OFFERING_FOLLOW_UP
    /\ ai_available
    /\ Len(conversation_history) = 6
    /\ conversation_history[3].text = MsgCall
    /\ conversation_history[4].reply = LLMReply("text")
    /\ conversation_history[5].text = MsgDetails
    /\ result = get_follow_up_options

\* C29: a process_message in CLOSING leaves the state CLOSING and both logs
\* as they are; its reply is the general closing text when the message
\* contains one of no, nothing, goodbye, bye, thanks, and the question whether
\* there is anything else otherwise.
C29_ClosingIsAbsorbing ==
    [][(last_op' = "process_message" /\ current_state = CLOSING)
          => /\ current_state' = CLOSING
             /\ sent_emails' = sent_emails
             /\ scheduled_callbacks' = scheduled_callbacks
             /\ result' = (IF ContainsAny(UserMessage(conversation_history'),
                                          {"no", "nothing", "goodbye", "bye", "thanks"})
                           THEN GENERAL_CLOSING
                           ELSE ANYTHING_ELSE)]_vars

\* after the email was sent the caller said "afternoon", which contains "no":
\* the call stays closed with its one email
C29_Witness ==
    /\ last_op = "process_message"
    /\ current_state = CLOSING
    /\ Len(conversation_history) = 8
    /\ conversation_history[6].reply.kind = "SUCCESSFUL_CLOSING"
    /\ conversation_history[7].text = MsgAfternoon
    /\ result = GENERAL_CLOSING
    /\ Len(sent_emails) = 1
    /\ scheduled_callbacks = <<>>

\* C30: in a call made of one start_call on a new engine and the messages that
\* follow it, at most one follow-up action is recorded (emails sent plus
\* callbacks scheduled), and the state is CLOSING exactly when one is recorded
RecordedActions == Len(sent_emails) + Len(scheduled_callbacks)

C30_OneActionExactlyInClosing ==
    /\ RecordedActions <= 1
    /\ current_state = CLOSING <=> RecordedActions = 1

\* a new lead whose callback was scheduled, and who sent a message after it
C30_Witness ==
    /\ last_op = "process_message"
    /\ current_state = CLOSING
    /\ pharmacy_data = NoPharmacy
    /\ Len(conversation_history) = 12
    /\ conversation_history[10].reply.kind = "SUCCESSFUL_CLOSING"
    /\ Len(scheduled_callbacks) = 1
    /\ sent_emails = <<>>

\* C31: in OFFERING_FOLLOW_UP with no known email address a message that
\* contains "email" records nothing and leaves the state OFFERING_FOLLOW_UP,
\* also when it contains "call" or "consultation"; from the offer on, no
\* process_message makes an address known or sends an email, and the state
\* becomes CLOSING only from SCHEDULING, with one callback recorded.
C31_NoAddressNoEmailInRestOfCall ==
    [][(/\ last_op' = "process_message"
        /\ current_state \in {OFFERING_FOLLOW_UP, SCHEDULING, CLOSING}
        /\ ~EmailKnown)
          => /\ ~EmailKnown'
             /\ sent_emails' = sent_emails
             /\ (current_state = OFFERING_FOLLOW_UP
                   /\ Contains(UserMessage(conversation_history'), "email"))
                  => /\ current_state' = OFFERING_FOLLOW_UP
                     /\ scheduled_callbacks' = scheduled_callbacks
                     /\ collected_info' = collected_info
             /\ (current_state # CLOSING /\ current_state' = CLOSING)
                  => /\ current_state = SCHEDULING
                     /\ Len(scheduled_callbacks') = Len(scheduled_callbacks) + 1]_vars

\* a customer without an address asked for "call or email", was asked for the
\* address, and then asked for the call
C31_Witness ==
    /\ last_op = "process_message"
    /\ ~EmailKnown
    /\ current_state = SCHEDULING
    /\ Len(conversation_history) = 8
    /\ conversation_history[5].text = MsgCallOrEmail
    /\ conversation_history[6].reply = ASK_EMAIL_ADDRESS
    /\ conversation_history[7].text = MsgCall
    /\ sent_emails = <<>>
    /\ scheduled_callbacks = <<>>

\* the answers of the language model that are failures: the request raised, or
\* the content was None, empty, or (for an extraction) not JSON
ModelFailures == {"raises", "none", "empty", "malformed"}

\* a failed extraction request is not fatal, leaves nothing of the answer in
\* collected_info and adds one to the failure counter
C32_ExtractionFailureIsCounted ==
    [][(/\ last_op' = "process_message"
        /\ Len(llm_requests') = 1
        /\ llm_requests'[1].kind = "extraction"
        /\ llm_completion'.kind \in ModelFailures)
          => /\ IsNonEmptyString(result')
             /\ parse_extraction(llm_completion') = EmptyDict
             /\ \A f \in FieldNames : ~WrittenByAITier(f, llm_requests'[1].user_message)
             /\ ai_extraction_failures' = ai_extraction_failures + 1]_vars

\* C32: every failure of the language model, on an extraction request and on
\* a generation request alike, is not fatal, ends as an empty extraction
\* result or as the fixed apology, and adds one to the failure counter.
C32_EveryModelFailureResolvedAndCounted ==
    [][(/\ last_op' = "process_message"
        /\ Len(llm_requests') = 1
        /\ llm_completion'.kind \in ModelFailures)
          => /\ IsNonEmptyString(result')
             /\ llm_requests'[1].kind = "extraction"
                  => /\ parse_extraction(llm_completion') = EmptyDict
                     /\ \A f \in FieldNames :
                            ~WrittenByAITier(f, llm_requests'[1].user_message)
             /\ llm_requests'[1].kind = "generation" => result' = AI_APOLOGY
             /\ ai_extraction_failures' = ai_extraction_failures + 1]_vars

\* an attempt of the lookup in progress that got no well-formed response: its
\* try block raised
AttemptFailed(response) == attempt_body(lookup_phone, response).kind = "raises"

\* the failures of the request itself are retried: a lookup that returns after
\* a timeout, a connection error or an HTTP error has made max_retries
\* requests, has slept retry_delay * k after the k-th of them but the last,
\* and returns None
C33_RequestFailuresRetried ==
    (/\ lookup_pc = "returned"
     /\ LastResponse.kind \in {"Timeout", "ConnectionError", "HTTPError"})
       => /\ Len(http_responses) = max_retries
          /\ slept = [k \in 1..(max_retries - 1) |-> retry_delay * k]
          /\ lookup_return = NoPharmacy

\* C33: a lookup goes on after every failed attempt, of whatever kind, until
\* max_retries attempts are made, and only then returns None; it makes no
\* attempt after one that got a well-formed response.
C33_EveryFailureRetried ==
    /\ \A i \in 1..(Len(http_responses) - 1) : AttemptFailed(http_responses[i])
    /\ (lookup_pc = "returned" /\ AttemptFailed(LastResponse))
          => /\ Len(http_responses) = max_retries
             /\ lookup_return = NoPharmacy

\* the places of the fetched list whose record matches the phone looked up
MatchingPlaces(records) ==
    { i \in 1..Len(records) : MatchesPhone(records[i], lookup_phone) }

\* the first match is returned, and None when nothing matches, in a list in
\* which no unreadable record comes before the first match
C34_FirstMatchOfReadableList ==
    (/\ lookup_pc = "returned"
     /\ LastResponse.kind = "payload"
     /\ LastResponse.payload.kind = "list")
       => LET records == LastResponse.payload.records
              places == MatchingPlaces(records)
          IN  (\A i \in 1..Len(records) :
                   Unreadable(records[i]) => \E j \in places : j < i)
                => /\ \A i \in places :
                          (\A j \in places : i <= j)
                            => lookup_return = parse_pharmacy_data(records[i].fields)
                   /\ places = {} => lookup_return = NoPharmacy

\* C34: after a successful fetch get_pharmacy_by_phone returns the first
\* record of the list whose cleaned phone is the cleaned phone looked up, and
\* None only when no record of the list matches.
C34_FirstMatchingRecordReturned ==
    (/\ lookup_pc = "returned"
     /\ LastResponse.kind = "payload"
     /\ LastResponse.payload.kind = "list")
       => LET records == LastResponse.payload.records
              places == MatchingPlaces(records)
          IN  /\ \A i \in places :
                     (\A j \in places : i <= j)
                       => /\ lookup_return # NoPharmacy
                          /\ lookup_return = parse_pharmacy_data(records[i].fields)
              /\ lookup_return = NoPharmacy => places = {}

\* the words of a message that hold a digit
WordsWithDigits(m) == { i \in 1..Len(m) : FirstDigitRun(m[i]) >= 0 }

\* C35: in manual mode with the cursor on rx_volume, a message with digits
\* stores the integer of its first run of digits as rx_volume and moves the
\* cursor by one ("We process 1500 prescriptions" stores 1500); a message
\* without a digit changes neither collected_info nor the cursor.
C35_ManualVolumeIsFirstRunOfDigits ==
    [][(/\ last_op' = "process_message"
        /\ current_state = COLLECTING_INFO
        /\ ~ai_tier_enabled(Engine)
        /\ current_info_field = 2)
          => LET m == UserMessage(conversation_history')
                 with == WordsWithDigits(m)
             IN  /\ with # {}
                      => /\ \A i \in with :
                                (\A j \in with : i <= j)
                                  => collected_info' =
                                         DictSet(collected_info, "rx_volume",
                                                 IntVal(FirstDigitRun(m[i])))
                         /\ current_info_field' = 3
                 /\ m = MsgVolume => collected_info'["rx_volume"] = IntVal(1500)
                 /\ with = {}
                      => /\ collected_info' = collected_info
                         /\ current_info_field' = current_info_field]_vars

\* without the language model, "We process 1500 prescriptions" was the answer
\* to the question about the volume
C35_Witness ==
    /\ last_op = "process_message"
    /\ ~ai_available
    /\ current_state = COLLECTING_INFO
    /\ current_info_field = 3
    /\ UserMessage(conversation_history) = MsgVolume
    /\ DOMAIN collected_info = {"pharmacy_name", "location", "rx_volume"}
    /\ collected_info["rx_volume"] = IntVal(1500)

\* C36: start_call and process_message keep every entry of the transcript; a
\* start_call that does not fail appends the system entry and the greeting it
\* returns; every process_message appends the user entry and, after it, the
\* assistant entry with the reply it returns; so every user entry is followed
\* at once by an assistant entry.
C36_TranscriptIsAppendOnly ==
    /\ [][/\ last_op' \in {"start_call", "process_message"}
               => IsPrefix(conversation_history, conversation_history')
          /\ (last_op' = "start_call" /\ lookup_outcome' # "raises")
               => /\ Len(conversation_history') = Len(conversation_history) + 2
                  /\ conversation_history'[Len(conversation_history) + 1].role = "system"
                  /\ conversation_history'[Len(conversation_history) + 2] =
                         Entry("assistant", <<>>, result')
          /\ last_op' = "process_message"
               => /\ Len(conversation_history') = Len(conversation_history) + 2
                  /\ conversation_history'[Len(conversation_history) + 1].role = "user"
                  /\ conversation_history'[Len(conversation_history) + 2] =
                         Entry("assistant", <<>>, result')]_vars
    /\ [](\A i \in 1..Len(conversation_history) :
              conversation_history[i].role = "user"
                => /\ i < Len(conversation_history)
                   /\ conversation_history[i + 1].role = "assistant")

\* C37: the failure counter stays within 0..3 and no operation, start_call
\* and reset_conversation included, makes it smaller; once the AI tier is off
\* (the counter at 3, or ai_available false), it stays off and no later step
\* sends an extraction request.
C37_DisabledExtractionStaysDisabled ==
    /\ [](ai_extraction_failures \in 0..AI_FAILURE_LIMIT)
    /\ [][/\ ai_extraction_failures' >= ai_extraction_failures
          /\ ~ai_tier_enabled(Engine)
               => /\ ~(ai_available' /\ ai_extraction_failures' < AI_FAILURE_LIMIT)
                  /\ ExtractionRequests(llm_requests') = {}]_vars

\* the counter reached 3 in an earlier call; in the call that followed the
\* reset, a new lead's message was handled without the language model
C37_Witness ==
    /\ last_op = "process_message"
    /\ ai_available
    /\ ai_extraction_failures = AI_FAILURE_LIMIT
    /\ current_state = COLLECTING_INFO
    /\ Len(conversation_history) = 4
    /\ llm_requests = <<>>

\* the cursor is within 0..5 and every field before it is a key of collected_info
C38_FieldsBeforeCursorArePresent ==
    /\ current_info_field \in 0..Len(info_collection_fields)
    /\ \A i \in 1..current_info_field : info_collection_fields[i] \in DOMAIN collected_info

\* C38: the cursor is within 0..5, every field before it is present in
\* collected_info, and the cursor is not past the last field when the prompt
\* for the next field is built, that is while a field is still to be asked.
C38_CursorWithinFieldsWhenPrompting ==
    /\ current_info_field \in 0..Len(info_collection_fields)
    /\ \A i \in 1..current_info_field : info_collection_fields[i] \in DOMAIN collected_info
    /\ ~has_complete_info(collected_info) => current_info_field < Len(info_collection_fields)

\* the transcript as _generate_ai_response found it in the step that has just
\* ended: the transcript of now without the assistant entry appended last
TranscriptAtRequest == SubSeq(conversation_history, 1, Len(conversation_history) - 1)

\* C39: the prompt of a generation request is the system instruction, then
\* the most recent entries of the transcript, 10 of them at most and in their
\* order, then the new user message; it holds 12 messages at most.
C39_PromptIsSystemWindowMessage ==
    (/\ last_op = "process_message"
     /\ Len(llm_requests) = 1
     /\ llm_requests[1].kind = "generation")
       => LET prompt == llm_requests[1].messages
              window == SubSeq(prompt, 2, Len(prompt) - 1)
              before == TranscriptAtRequest
          IN  /\ Len(prompt) >= 2
              /\ Len(prompt) <= 12
              /\ prompt[1] = SYSTEM_PROMPT
              /\ prompt[Len(prompt)] = Entry("user", llm_requests[1].user_message, NoReply)
              /\ Len(window) = IF Len(before) <= 10 THEN Len(before) ELSE 10
              /\ \A k \in 1..Len(window) :
                     window[k] = before[Len(before) - Len(window) + k]

\* the transcript held 13 entries when the prompt was built: the prompt holds
\* 12 messages, the first three entries of the transcript are left out
C39_Witness ==
    /\ last_op = "process_message"
    /\ Len(conversation_history) = 14
    /\ Len(llm_requests) = 1
    /\ llm_requests[1].kind = "generation"
    /\ Len(llm_requests[1].messages) = 12
    /\ llm_requests[1].messages[2] = conversation_history[4]


\* the transcript as it stood before the message of the step that has just
\* ended: without the entry of the message and without the entry of the reply
TranscriptBeforeMessage == SubSeq(conversation_history, 1, Len(conversation_history) - 2)

\* the number of messages of a prompt that are the user message m
RECURSIVE Occurrences(_, _)
Occurrences(prompt, m) ==
    IF prompt = <<>>
    THEN 0
    ELSE (IF Head(prompt) = Entry("user", m, NoReply) THEN 1 ELSE 0)
         + Occurrences(Tail(prompt), m)

\* C40: in the prompt of a generation request made by process_message, the
\* window of transcript entries holds only entries that precede the message
\* being processed (it is the end of the transcript before the message), so
\* that a message the user sends for the first time is in the prompt once.
C40_UserMessageOnceInPrompt ==
    (/\ last_op = "process_message"
     /\ Len(llm_requests) = 1
     /\ llm_requests[1].kind = "generation")
       => LET prompt == llm_requests[1].messages
              window == SubSeq(prompt, 2, Len(prompt) - 1)
              before == TranscriptBeforeMessage
              m      == llm_requests[1].user_message
          IN  /\ Len(window) <= Len(before)
              /\ \A k \in 1..Len(window) :
                     window[k] = before[Len(before) - Len(window) + k]
              /\ Occurrences(before, m) = 0 => Occurrences(prompt, m) = 1

\* what the code does instead: the last entry of the window is the entry of
\* the message being processed, the prompt ends with that message twice
C40_UserMessageTwiceInPrompt ==
    (/\ last_op = "process_message"
     /\ Len(llm_requests) = 1
     /\ llm_requests[1].kind = "generation")
       => LET prompt == llm_requests[1].messages
          IN  /\ Len(prompt) >= 3
              /\ prompt[Len(prompt) - 1] = prompt[Len(prompt)]
              /\ prompt[Len(prompt)] = Entry("user", llm_requests[1].user_message, NoReply)

====
